---- MODULE Spec2Model ----
(***************************************************************************)
(* A model of simPLY_chess (src/src/engines/simPLY_chess.py): the 10x12    *)
(* board, the pseudo-legal move generator, make_move / rotate_position,    *)
(* the evaluator, the PolyGlot hasher and book reader, the negamax search  *)
(* with its transposition table, and the UCI command loop.                 *)
(*                                                                         *)
(* Conventions.  A position is a function 0..119 -> one-character string,  *)
(* indexed as the source's 120-character string.  A Python list of two     *)
(* booleans is a tuple <<a, b>>: the source's castling[0] is castling[1]   *)
(* here and castling[1] is castling[2].  A move is the source's 4-tuple    *)
(* <<start_square, end_square, piece_captured, promotion_piece>>.          *)
(* A 64-bit Zobrist value is the set of HASH_VALUES indices XORed into it. *)
(***************************************************************************)
EXTENDS Integers, Sequences, FiniteSets, TLC

(***************************************************************************)
(* CONSTANTS AND GLOBAL VARIABLES (source lines 32-520)                    *)
(***************************************************************************)
A1 == 91
H1 == 98
A8 == 21
H8 == 28

NORTH == -10
EAST == 1
SOUTH == 10
WEST == -1

PIECE_DIRECTIONS ==
  [P |-> <<NORTH, NORTH + NORTH, NORTH + WEST, NORTH + EAST>>,
   N |-> <<NORTH + NORTH + EAST, NORTH + NORTH + WEST, EAST + EAST + NORTH,
           EAST + EAST + SOUTH, SOUTH + SOUTH + EAST, SOUTH + SOUTH + WEST,
           WEST + WEST + SOUTH, WEST + WEST + NORTH>>,
   B |-> <<NORTH + EAST, SOUTH + EAST, SOUTH + WEST, NORTH + WEST>>,
   R |-> <<NORTH, EAST, SOUTH, WEST>>,
   Q |-> <<NORTH, EAST, SOUTH, WEST, NORTH + EAST, SOUTH + EAST,
           SOUTH + WEST, NORTH + WEST>>,
   K |-> <<NORTH, EAST, SOUTH, WEST, NORTH + EAST, SOUTH + EAST,
           SOUTH + WEST, NORTH + WEST>>]

\* A function built by [x \in S |-> e] is evaluated by the model checker each
\* time it is applied; comparing it evaluates it once for all its arguments.
Eager(f) == IF f = f THEN f ELSE f

\* The characters of a board and Python's str predicates on them.
UPPER == {"P", "N", "B", "R", "Q", "K"}
LOWER == {"p", "n", "b", "r", "q", "k"}
isupper(c) == c \in UPPER
islower(c) == c \in LOWER
isspace(c) == c \in {" ", "\n"}
upper(c) ==
  CASE c = "p" -> "P" [] c = "n" -> "N" [] c = "b" -> "B"
    [] c = "r" -> "R" [] c = "q" -> "Q" [] c = "k" -> "K" [] OTHER -> c
lower(c) ==
  CASE c = "P" -> "p" [] c = "N" -> "n" [] c = "B" -> "b"
    [] c = "R" -> "r" [] c = "Q" -> "q" [] c = "K" -> "k" [] OTHER -> c
swapcase(c) == IF isupper(c) THEN lower(c) ELSE upper(c)

\* A 120-character board string from its eight ranks (rank 8 first), each a
\* tuple of eight characters: the layout of INITIAL_POSITION and of load_fen.
BoardOf(rows) ==
  Eager([i \in 0..119 |->
           IF i % 10 = 9 THEN "\n"
           ELSE IF i \div 10 \in 2..9 /\ i % 10 \in 1..8 THEN rows[(i \div 10) - 1][i % 10]
           ELSE " "])

INITIAL_POSITION ==
  BoardOf(<< <<"r", "n", "b", "q", "k", "b", "n", "r">>,
             <<"p", "p", "p", "p", "p", "p", "p", "p">>,
             <<".", ".", ".", ".", ".", ".", ".", ".">>,
             <<".", ".", ".", ".", ".", ".", ".", ".">>,
             <<".", ".", ".", ".", ".", ".", ".", ".">>,
             <<".", ".", ".", ".", ".", ".", ".", ".">>,
             <<"P", "P", "P", "P", "P", "P", "P", "P">>,
             <<"R", "N", "B", "Q", "K", "B", "N", "R">> >>)
INITIAL_CASTLING == <<TRUE, TRUE>>
INITIAL_OPPONENT_CASTLING == <<TRUE, TRUE>>
INITIAL_EN_PASSANT == 0
INITIAL_KING_PASSANT == 0
INITIAL_COLOR == "w"

MIDGAME_PIECE_VALUES ==
  [P |-> 100, N |-> 411, B |-> 445, R |-> 582, Q |-> 1250, K |-> 100000]
MIDGAME_TROPISM_VALUES ==
  [piece \in UPPER |-> MIDGAME_PIECE_VALUES[piece] \div 5]
ENDGAME_PIECE_VALUES ==
  [P |-> 115, N |-> 343, B |-> 362, R |-> 624, Q |-> 1141, K |-> 100000]
ENDGAME_TROPISM_VALUES ==
  [piece \in UPPER |-> ENDGAME_PIECE_VALUES[piece] \div 3]

\* src/src/engines/simPLY_chess.py:106
MIDGAME_PAWN_TABLE ==
  <<
        0,     0,     0,     0,     0,     0,     0,     0,
      120,   163,    74,   116,    83,   154,    41,   -13,
       -7,     9,    32,    38,    79,    68,    30,   -24,
      -17,    16,     7,    26,    28,    15,    21,   -28,
      -33,    -2,    -6,    20,    26,     7,    12,   -30,
      -32,    -5,    -5,   -12,     4,     4,    40,   -15,
      -43,    -1,   -24,   -33,   -23,    29,    46,   -27,
        0,     0,     0,     0,     0,     0,     0,     0 >>

\* src/src/engines/simPLY_chess.py:117
MIDGAME_KNIGHT_TABLE ==
  <<
     -204,  -109,   -41,   -60,    74,  -118,   -18,  -130,
      -89,   -50,    88,    44,    28,    76,     9,   -21,
      -57,    73,    45,    79,   102,   157,    89,    54,
      -11,    21,    23,    65,    45,    84,    22,    27,
      -16,     5,    20,    16,    34,    23,    26,   -10,
      -28,   -11,    15,    12,    23,    21,    30,   -20,
      -35,   -65,   -15,    -4,    -1,    22,   -17,   -23,
     -128,   -26,   -71,   -40,   -21,   -34,   -23,   -28 >>

\* src/src/engines/simPLY_chess.py:128
MIDGAME_BISHOP_TABLE ==
  <<
      -35,     5,  -100,   -45,   -30,   -51,     9,   -10,
      -32,    20,   -22,   -16,    37,    72,    22,   -57,
      -20,    45,    52,    49,    43,    61,    45,    -2,
       -5,     6,    23,    61,    45,    45,     9,    -2,
       -7,    16,    16,    32,    41,    15,    12,     5,
        0,    18,    18,    18,    17,    33,    22,    12,
        5,    18,    20,     0,     9,    26,    40,     1,
      -40,    -4,   -17,   -26,   -16,   -15,   -48,   -26 >>

\* src/src/engines/simPLY_chess.py:139
MIDGAME_ROOK_TABLE ==
  <<
       39,    51,    39,    62,    77,    11,    38,    52,
       33,    39,    71,    76,    98,    82,    32,    54,
       -6,    23,    32,    44,    21,    55,    74,    20,
      -29,   -13,     9,    32,    29,    43,   -10,   -24,
      -44,   -32,   -15,    -1,    11,    -9,     7,   -28,
      -55,   -30,   -20,   -21,     4,     0,    -6,   -40,
      -54,   -20,   -24,   -11,    -1,    13,    -7,   -87,
      -23,   -16,     1,    21,    20,     9,   -45,   -32 >>

\* src/src/engines/simPLY_chess.py:150
MIDGAME_QUEEN_TABLE ==
  <<
      -34,     0,    35,    15,    72,    54,    52,    55,
      -29,   -48,    -6,     1,   -20,    70,    34,    66,
      -16,   -21,     9,    10,    35,    68,    57,    70,
      -33,   -33,   -20,   -20,    -1,    21,    -2,     1,
      -11,   -32,   -11,   -12,    -2,    -5,     4,    -4,
      -17,     2,   -13,    -2,    -6,     2,    17,     6,
      -43,   -10,    13,     2,    10,    18,    -4,     1,
       -1,   -22,   -11,    12,   -18,   -30,   -38,   -61 >>

\* src/src/engines/simPLY_chess.py:161
MIDGAME_KING_TABLE ==
  <<
      -79,    28,    20,   -18,   -68,   -41,     2,    16,
       35,    -1,   -24,    -9,   -10,    -5,   -46,   -35,
      -11,    29,     2,   -20,   -24,     7,    27,   -27,
      -21,   -24,   -15,   -33,   -37,   -30,   -17,   -44,
      -60,    -1,   -33,   -48,   -56,   -54,   -40,   -62,
      -17,   -17,   -27,   -56,   -54,   -37,   -18,   -33,
        1,     9,   -10,   -78,   -52,   -20,    11,    10,
      -18,    44,    15,   -66,    10,   -34,    29,    17 >>

\* src/src/engines/simPLY_chess.py:199
ENDGAME_PAWN_TABLE ==
  <<
        0,     0,     0,     0,     0,     0,     0,     0,
      217,   211,   193,   163,   179,   161,   201,   228,
      115,   122,   104,    82,    68,    65,   100,   102,
       39,    29,    16,     6,    -2,     5,    21,    21,
       16,    11,    -4,    -9,    -9,   -10,     4,    -1,
        5,     9,    -7,     1,     0,    -6,    -1,   -10,
       16,    10,    10,    12,    16,     0,     2,    -9,
        0,     0,     0,     0,     0,     0,     0,     0 >>

\* src/src/engines/simPLY_chess.py:210
ENDGAME_KNIGHT_TABLE ==
  <<
      -71,   -46,   -16,   -34,   -38,   -33,   -77,  -121,
      -30,   -10,   -30,    -2,   -11,   -30,   -29,   -63,
      -29,   -24,    12,    11,    -1,   -11,   -23,   -50,
      -21,     4,    27,    27,    27,    13,    10,   -22,
      -22,    -7,    20,    30,    20,    21,     5,   -22,
      -28,    -4,    -1,    18,    12,    -4,   -24,   -27,
      -51,   -24,   -12,    -6,    -2,   -24,   -28,   -54,
      -35,   -62,   -28,   -18,   -27,   -22,   -61,   -78 >>

\* src/src/engines/simPLY_chess.py:221
ENDGAME_BISHOP_TABLE ==
  <<
      -17,   -26,   -13,   -10,    -9,   -11,   -21,   -29,
      -10,    -5,     9,   -15,    -4,   -16,    -5,   -17,
        2,   -10,     0,    -1,    -2,     7,     0,     5,
       -4,    11,    15,    11,    17,    12,     4,     2,
       -7,     4,    16,    23,     9,    12,    -4,   -11,
      -15,    -4,    10,    12,    16,     4,    -9,   -18,
      -17,   -22,    -9,    -1,     5,   -11,   -18,   -33,
      -28,   -11,   -28,    -6,   -11,   -20,    -6,   -21 >>

\* src/src/engines/simPLY_chess.py:232
ENDGAME_ROOK_TABLE ==
  <<
       16,    12,    22,    18,    15,    15,    10,     6,
       13,    16,    16,    13,    -4,     4,    10,     4,
        9,     9,     9,     6,     5,    -4,    -6,    -4,
        5,     4,    16,     1,     2,     1,    -1,     2,
        4,     6,    10,     5,    -6,    -7,   -10,   -13,
       -5,     0,    -6,    -1,    -9,   -15,   -10,   -20,
       -7,    -7,     0,     2,   -11,   -11,   -13,    -4,
      -11,     2,     4,    -1,    -6,   -16,     5,   -24 >>

\* src/src/engines/simPLY_chess.py:243
ENDGAME_QUEEN_TABLE ==
  <<
      -11,    27,    27,    33,    33,    23,    12,    24,
      -21,    24,    39,    50,    71,    30,    37,     0,
      -24,     7,    11,    60,    57,    43,    23,    11,
        4,    27,    29,    55,    70,    49,    70,    44,
      -22,    34,    23,    57,    38,    41,    48,    28,
      -20,   -33,    18,     7,    11,    21,    12,     6,
      -27,   -28,   -37,   -20,   -20,   -28,   -44,   -39,
      -40,   -34,   -27,   -52,    -6,   -39,   -24,   -50 >>

\* src/src/engines/simPLY_chess.py:254
ENDGAME_KING_TABLE ==
  <<
      -90,   -43,   -22,   -22,   -13,    18,     5,   -21,
      -15,    21,    17,    21,    21,    46,    28,    13,
       12,    21,    28,    18,    24,    55,    54,    16,
      -10,    27,    29,    33,    32,    40,    32,     4,
      -22,    -5,    26,    29,    33,    28,    11,   -13,
      -23,    -4,    13,    26,    28,    20,     9,   -11,
      -33,   -13,     5,    16,    17,     5,    -6,   -21,
      -65,   -41,   -26,   -13,   -34,   -17,   -29,   -52 >>
\* The tables as main() pads them on the first isready (source lines
\* 1127-1137): two blank rows, then each rank between two zeros, then two
\* blank rows, so that a table is indexed by the cell directly.
PadTable(table) ==
  Eager([i \in 0..119 |->
           IF i \div 10 \in 2..9 /\ i % 10 \in 1..8
           THEN table[8 * ((i \div 10) - 2) + (i % 10)]
           ELSE 0])

MIDGAME_PIECE_SQUARE_TABLES ==
  [P |-> PadTable(MIDGAME_PAWN_TABLE), N |-> PadTable(MIDGAME_KNIGHT_TABLE),
   B |-> PadTable(MIDGAME_BISHOP_TABLE), R |-> PadTable(MIDGAME_ROOK_TABLE),
   Q |-> PadTable(MIDGAME_QUEEN_TABLE), K |-> PadTable(MIDGAME_KING_TABLE)]
ENDGAME_PIECE_SQUARE_TABLES ==
  [P |-> PadTable(ENDGAME_PAWN_TABLE), N |-> PadTable(ENDGAME_KNIGHT_TABLE),
   B |-> PadTable(ENDGAME_BISHOP_TABLE), R |-> PadTable(ENDGAME_ROOK_TABLE),
   Q |-> PadTable(ENDGAME_QUEEN_TABLE), K |-> PadTable(ENDGAME_KING_TABLE)]

MOP_UP_SCORE == ENDGAME_PIECE_VALUES["P"] * 2
CHECKMATE_UPPER == ENDGAME_PIECE_VALUES["K"] + 10 * ENDGAME_PIECE_VALUES["Q"]
CHECKMATE_LOWER == ENDGAME_PIECE_VALUES["K"] - 10 * ENDGAME_PIECE_VALUES["Q"]

KNIGHT_PHASE == 1
BISHOP_PHASE == 1
ROOK_PHASE == 2
QUEEN_PHASE == 4
TOTAL_PHASE == 4 * KNIGHT_PHASE + 4 * BISHOP_PHASE + 4 * ROOK_PHASE + 2 * QUEEN_PHASE

PIECE_ENCODINGS ==
  [p |-> 0, P |-> 1, n |-> 2, N |-> 3, b |-> 4, B |-> 5,
   r |-> 6, R |-> 7, q |-> 8, Q |-> 9, k |-> 10, K |-> 11]

DECODED_PROMOTION_PIECES == [i \in 0..4 |-> <<"", "N", "B", "R", "Q">>[i + 1]]

\* The null move (0, 0, "", "").
NULL_MOVE == <<0, 0, "", "">>

(***************************************************************************)
(* EVALUATION FUNCTIONS (source lines 646-714)                             *)
(***************************************************************************)
abs(x) == IF x < 0 THEN -x ELSE x

manhattan_distance(square1, square2) ==
  abs((square1 % 10) - (square2 % 10)) + abs((square1 \div 10) - (square2 \div 10))

\* position.count(c)
count(position, c) == Cardinality({i \in 0..119 : position[i] = c})

\* position.find(c) if c in position else 0
find_or_zero(position, c) ==
  IF \E i \in 0..119 : position[i] = c
  THEN CHOOSE i \in 0..119 : position[i] = c /\ \A j \in 0..(i - 1) : position[j] # c
  ELSE 0

game_phase(position) ==
  LET phase == TOTAL_PHASE
                 - (count(position, "N") + count(position, "n")) * KNIGHT_PHASE
                 - (count(position, "B") + count(position, "b")) * BISHOP_PHASE
                 - (count(position, "R") + count(position, "r")) * ROOK_PHASE
                 - (count(position, "Q") + count(position, "q")) * QUEEN_PHASE
  IN  (phase * 256 + (TOTAL_PHASE \div 2)) \div TOTAL_PHASE

interpolate(midgame_score, endgame_score, phase) ==
  ((midgame_score * (256 - phase)) + (endgame_score * phase)) \div 256

\* The cell of the opponent's table that a lowercase piece on square is
\* scored at: (11 - (square // 10)) * 10 + (square % 10).
mirror(square) == (11 - (square \div 10)) * 10 + (square % 10)

\* The contribution of one square to <<midgame_score, endgame_score>> in the
\* loop of evaluate_position.
eval_cell(position, king_square, opponent_king_square, square) ==
  LET piece == position[square] IN
  IF isupper(piece)
  THEN << MIDGAME_PIECE_VALUES[piece] + MIDGAME_PIECE_SQUARE_TABLES[piece][square]
            + (MIDGAME_TROPISM_VALUES[piece] \div manhattan_distance(square, opponent_king_square)),
          ENDGAME_PIECE_VALUES[piece] + ENDGAME_PIECE_SQUARE_TABLES[piece][square]
            + (ENDGAME_TROPISM_VALUES[piece] \div manhattan_distance(square, opponent_king_square)) >>
  ELSE IF islower(piece)
  THEN << 0 - (MIDGAME_PIECE_VALUES[upper(piece)] + MIDGAME_PIECE_SQUARE_TABLES[upper(piece)][mirror(square)])
            - (MIDGAME_TROPISM_VALUES[upper(piece)] \div manhattan_distance(square, king_square)),
          0 - (ENDGAME_PIECE_VALUES[upper(piece)] + ENDGAME_PIECE_SQUARE_TABLES[upper(piece)][mirror(square)])
            - (ENDGAME_TROPISM_VALUES[upper(piece)] \div manhattan_distance(square, king_square)) >>
  ELSE <<0, 0>>

RECURSIVE eval_cells(_, _, _, _, _)
\* The loop of evaluate_position over the squares lo..hi (the sums are
\* independent of the order, so the range is halved to keep the nesting low).
eval_cells(position, king_square, opponent_king_square, lo, hi) ==
  IF lo = hi THEN eval_cell(position, king_square, opponent_king_square, lo)
  ELSE LET mid == (lo + hi) \div 2
           l == eval_cells(position, king_square, opponent_king_square, lo, mid)
           r == eval_cells(position, king_square, opponent_king_square, mid + 1, hi)
       IN  <<l[1] + r[1], l[2] + r[2]>>

evaluate_position(position) ==
  LET king_square == find_or_zero(position, "K")
      opponent_king_square == find_or_zero(position, "k")
      sums == eval_cells(position, king_square, opponent_king_square, 0, 119)
      mop_up_bonus ==
        (MOP_UP_SCORE * (14 - manhattan_distance(king_square, opponent_king_square))) \div 14
      endgame_score ==
        IF sums[2] > 0 THEN sums[2] + mop_up_bonus
        ELSE IF sums[2] < 0 THEN sums[2] - mop_up_bonus
        ELSE sums[2]
  IN  interpolate(sums[1], endgame_score, game_phase(position))

\* evaluate_move with game_phase(position) already computed.
evaluate_move_at(move, position, en_passant, phase) ==
  LET start_square == move[1]
      end_square == move[2]
      piece_moved == position[start_square]
      piece_captured == move[3]
      promotion_piece == move[4]
      capture == islower(piece_captured)
      castle == piece_moved = "K" /\ abs(start_square - end_square) = 2
      rook_home == IF end_square < start_square THEN A1 ELSE H1
      promo == piece_moved = "P" /\ A8 <= end_square /\ end_square <= H8
      ep == piece_moved = "P" /\ end_square + SOUTH = en_passant
      score(values, tables) ==
        tables[piece_moved][end_square] - tables[piece_moved][start_square]
        + (IF capture
           THEN values[upper(piece_captured)] + tables[upper(piece_captured)][mirror(end_square)]
           ELSE 0)
        + (IF castle
           THEN tables["R"][(start_square + end_square) \div 2] - tables["R"][rook_home]
           ELSE 0)
        + (IF promo
           THEN tables[promotion_piece][end_square] - tables["P"][end_square]
                + values[promotion_piece] - values["P"]
           ELSE 0)
        + (IF ep THEN tables["P"][mirror(end_square + SOUTH)] ELSE 0)
  IN  interpolate(score(MIDGAME_PIECE_VALUES, MIDGAME_PIECE_SQUARE_TABLES),
                  score(ENDGAME_PIECE_VALUES, ENDGAME_PIECE_SQUARE_TABLES), phase)

evaluate_move(move, position, en_passant) ==
  evaluate_move_at(move, position, en_passant, game_phase(position))

(***************************************************************************)
(* BOARD LOGIC (source lines 523-639)                                      *)
(***************************************************************************)
RECURSIVE slide(_, _, _, _, _, _)
\* The innermost loop of generate_moves: the moves appended for the piece on
\* start_square in one direction, from end_square on.
slide(position, castling, en_passant, start_square, direction, end_square) ==
  LET piece_moved == position[start_square]
      piece_captured == position[end_square]
  IN
  IF isspace(piece_captured) \/ isupper(piece_captured) THEN <<>>
  ELSE IF piece_moved = "P" /\ direction \in {NORTH, NORTH + NORTH}
          /\ piece_captured # "." THEN <<>>
  ELSE IF piece_moved = "P" /\ direction = NORTH + NORTH
          /\ (start_square < A1 + NORTH \/ position[start_square + NORTH] # ".") THEN <<>>
  ELSE IF piece_moved = "P" /\ direction \in {NORTH + WEST, NORTH + EAST}
          /\ piece_captured = "." /\ end_square + SOUTH # en_passant THEN <<>>
  ELSE IF piece_moved = "P" /\ A8 <= end_square /\ end_square <= H8
  THEN << <<start_square, end_square, piece_captured, "Q">>,
          <<start_square, end_square, piece_captured, "R">>,
          <<start_square, end_square, piece_captured, "B">>,
          <<start_square, end_square, piece_captured, "N">> >>
  ELSE << <<start_square, end_square, piece_captured, "">> >>
       \o (IF piece_moved \in {"P", "N", "K"} \/ islower(piece_captured) THEN <<>>
           ELSE (IF start_square = A1 /\ position[end_square + EAST] = "K" /\ castling[1]
                 THEN << <<end_square + EAST, end_square + WEST, piece_captured, "">> >>
                 ELSE <<>>)
                \o (IF start_square = H1 /\ position[end_square + WEST] = "K" /\ castling[2]
                    THEN << <<end_square + WEST, end_square + EAST, piece_captured, "">> >>
                    ELSE <<>>)
                \o slide(position, castling, en_passant, start_square, direction,
                         end_square + direction))

RECURSIVE piece_moves(_, _, _, _, _)
\* The loop over the directions of the piece on start_square, from the k-th.
piece_moves(position, castling, en_passant, start_square, k) ==
  LET directions == PIECE_DIRECTIONS[position[start_square]] IN
  IF k > Len(directions) THEN <<>>
  ELSE slide(position, castling, en_passant, start_square, directions[k],
             start_square + directions[k])
       \o piece_moves(position, castling, en_passant, start_square, k + 1)

RECURSIVE scan_moves(_, _, _, _, _)
\* The outer loop of generate_moves over the squares lo..hi, in ascending
\* order: move_list before it is sorted.
scan_moves(position, castling, en_passant, lo, hi) ==
  IF lo = hi
  THEN (IF isupper(position[lo])
        THEN piece_moves(position, castling, en_passant, lo, 1)
        ELSE <<>>)
  ELSE LET mid == (lo + hi) \div 2 IN
       scan_moves(position, castling, en_passant, lo, mid)
       \o scan_moves(position, castling, en_passant, mid + 1, hi)

\* The place of list[k] after list.sort(key, reverse=True): the sort is
\* descending by key and stable, so an element comes after every element with
\* a greater key and after the earlier elements with an equal key.
sorted_rank(keys, k) ==
  Cardinality({j \in 1..Len(keys) : keys[j] > keys[k] \/ (keys[j] = keys[k] /\ j < k)}) + 1

permute(list, ranks) ==
  Eager([r \in 1..Len(list) |-> list[CHOOSE k \in 1..Len(list) : ranks[k] = r]])

sort_by_keys(list, keys) ==
  permute(list, Eager([k \in 1..Len(keys) |-> sorted_rank(keys, k)]))

\* move_list.sort(key=lambda move: evaluate_move(move, position, en_passant),
\* reverse=True), with game_phase(position) computed once.
sort_moves(move_list, position, en_passant, phase) ==
  sort_by_keys(move_list,
               Eager([k \in 1..Len(move_list) |->
                        evaluate_move_at(move_list[k], position, en_passant, phase)]))

generate_moves(position, castling, en_passant) ==
  sort_moves(scan_moves(position, castling, en_passant, 0, 119),
             position, en_passant, game_phase(position))

\* make_move without the assignment that empties the start cell.
make_move_leaving_piece(move, position, castling, opponent_castling, en_passant, king_passant) ==
  LET start_square == move[1]
      end_square == move[2]
      promotion_piece == move[4]
      piece_moved == position[start_square]
      queenside == piece_moved = "K" /\ start_square - end_square = 2
      kingside == piece_moved = "K" /\ end_square - start_square = 2
      passant == IF queenside \/ kingside THEN (start_square + end_square) \div 2 ELSE 0
      moved == [position EXCEPT ![end_square] = piece_moved]
      castled1 == IF queenside
                  THEN [moved EXCEPT ![A1] = moved[passant], ![passant] = moved[A1]]
                  ELSE moved
      castled2 == IF kingside
                  THEN [castled1 EXCEPT ![H1] = castled1[passant], ![passant] = castled1[H1]]
                  ELSE castled1
      captured == IF piece_moved = "P" /\ end_square = en_passant
                  THEN [castled2 EXCEPT ![end_square + SOUTH] = "."]
                  ELSE castled2
      promoted == IF piece_moved = "P" /\ A8 <= end_square /\ end_square <= H8
                  THEN [captured EXCEPT ![end_square] = promotion_piece]
                  ELSE captured
  IN  << promoted,
         << castling[1] /\ start_square # A1 /\ piece_moved # "K",
            castling[2] /\ start_square # H1 /\ piece_moved # "K" >>,
         << opponent_castling[1] /\ end_square # A8,
            opponent_castling[2] /\ end_square # H8 >>,
         IF piece_moved = "P"
         THEN (IF end_square - start_square = NORTH + NORTH THEN end_square + SOUTH ELSE 0)
         ELSE en_passant,
         passant >>

make_move(move, position, castling, opponent_castling, en_passant, king_passant) ==
  LET start_square == move[1]
      end_square == move[2]
      promotion_piece == move[4]
      piece_moved == position[start_square]
      queenside == piece_moved = "K" /\ start_square - end_square = 2
      kingside == piece_moved = "K" /\ end_square - start_square = 2
      passant == IF queenside \/ kingside THEN (start_square + end_square) \div 2 ELSE 0
      moved == [position EXCEPT ![start_square] = ".", ![end_square] = piece_moved]
      castled1 == IF queenside
                  THEN [moved EXCEPT ![A1] = moved[passant], ![passant] = moved[A1]]
                  ELSE moved
      castled2 == IF kingside
                  THEN [castled1 EXCEPT ![H1] = castled1[passant], ![passant] = castled1[H1]]
                  ELSE castled1
      captured == IF piece_moved = "P" /\ end_square = en_passant
                  THEN [castled2 EXCEPT ![end_square + SOUTH] = "."]
                  ELSE castled2
      promoted == IF piece_moved = "P" /\ A8 <= end_square /\ end_square <= H8
                  THEN [captured EXCEPT ![end_square] = promotion_piece]
                  ELSE captured
  IN  << promoted,
         << castling[1] /\ start_square # A1 /\ piece_moved # "K",
            castling[2] /\ start_square # H1 /\ piece_moved # "K" >>,
         << opponent_castling[1] /\ end_square # A8,
            opponent_castling[2] /\ end_square # H8 >>,
         IF piece_moved = "P"
         THEN (IF end_square - start_square = NORTH + NORTH THEN end_square + SOUTH ELSE 0)
         ELSE en_passant,
         passant >>

\* rotate_position with the two pairs assigned one after the other instead of
\* swapped.
rotate_position_assigning_in_turn(position, castling, opponent_castling, en_passant, king_passant) ==
  << Eager([j \in 0..119 |->
              LET i == IF j < 60 THEN j ELSE 119 - j IN
              IF isspace(position[i]) THEN position[j] ELSE swapcase(position[119 - j])]),
     opponent_castling,
     opponent_castling,
     119 - en_passant,
     119 - king_passant >>

rotate_position(position, castling, opponent_castling, en_passant, king_passant) ==
  << Eager([j \in 0..119 |->
              LET i == IF j < 60 THEN j ELSE 119 - j IN
              IF isspace(position[i]) THEN position[j] ELSE swapcase(position[119 - j])]),
     opponent_castling,
     castling,
     119 - en_passant,
     119 - king_passant >>

\* make_move followed by rotate_position(*new_position).
make_and_rotate(move, position, castling, opponent_castling, en_passant, king_passant) ==
  LET made == make_move(move, position, castling, opponent_castling, en_passant, king_passant)
  IN  rotate_position(made[1], made[2], made[3], made[4], made[5])

king_in_check(position, castling, king_passant) ==
  LET king_position == find_or_zero(position, "k")
      castled == king_passant \in {23, 25, 24, 26}
      original_king_position ==
        IF king_passant \in {23, 25} THEN 24
        ELSE IF king_passant \in {24, 26} THEN 25
        ELSE 0
      move_list == generate_moves(position, castling, 0)
  IN  IF king_position = 0 THEN TRUE
      ELSE \E k \in 1..Len(move_list) :
             \/ move_list[k][2] = king_position
             \/ move_list[k][2] = king_passant
             \/ (castled /\ move_list[k][2] = original_king_position)

(***************************************************************************)
(* HASHING AND OPENING BOOK FUNCTIONS (source lines 717-837)               *)
(*                                                                         *)
(* HASH_VALUES holds 781 64-bit numbers and a key is the XOR of some of    *)
(* them.  A key is modelled by the set of the indices XORed into it (an    *)
(* index XORed twice cancels), which tells two keys apart exactly when     *)
(* their index sets differ.                                                *)
(***************************************************************************)
xor(a, b) == (a \ b) \cup (b \ a)

HASH_VALUES(index) == {index}

\* The loop over the board: every occupied cell XORs one entry, and the
\* entries of distinct (piece, cell) pairs are distinct.
piece_hash(position) ==
  UNION { HASH_VALUES((64 * PIECE_ENCODINGS[position[i]]) + (8 * (9 - (i \div 10))) + ((i % 10) - 1)) :
            i \in {j \in 0..119 : ~isspace(position[j]) /\ position[j] # "."} }

castling_hash(castling, opponent_castling) ==
  xor(xor(IF castling[1] THEN HASH_VALUES(768 + 1) ELSE {},
          IF castling[2] THEN HASH_VALUES(768 + 0) ELSE {}),
      xor(IF opponent_castling[1] THEN HASH_VALUES(768 + 3) ELSE {},
          IF opponent_castling[2] THEN HASH_VALUES(768 + 2) ELSE {}))

en_passant_hash(position, en_passant) ==
  IF en_passant # 0 /\ en_passant # 119
  THEN IF 41 <= en_passant /\ en_passant <= 48
       THEN (IF position[en_passant + SOUTH + EAST] = "P" \/ position[en_passant + SOUTH + WEST] = "P"
             THEN HASH_VALUES(772 + (en_passant % 10) - 1) ELSE {})
       ELSE IF 71 <= en_passant /\ en_passant <= 78
       THEN (IF position[en_passant + NORTH + EAST] = "p" \/ position[en_passant + NORTH + WEST] = "p"
             THEN HASH_VALUES(772 + (en_passant % 10) - 1) ELSE {})
       ELSE {}
  ELSE {}

\* The body of zobrist_hash after the position has been turned to white's
\* point of view.
hash_from_white(white, turn_hash) ==
  xor(xor(xor(piece_hash(white[1]), castling_hash(white[2], white[3])),
          en_passant_hash(white[1], white[4])),
      turn_hash)

zobrist_hash(position, castling, opponent_castling, en_passant, king_passant, color) ==
  IF color = "b"
  THEN hash_from_white(rotate_position(position, castling, opponent_castling, en_passant, king_passant), {})
  ELSE hash_from_white(<<position, castling, opponent_castling, en_passant, king_passant>>,
                       HASH_VALUES(780))

\* A book file is [present, bytes, records]: whether it exists, its length in
\* bytes, and its 16-byte records <<key, move, weight, learn>> in order.
\* load_book opens and unpacks it; open() raises when the file is absent and
\* struct.unpack raises when the length is not that of len // 16 records.
load_book_raises(file) == ~file.present \/ file.bytes % 16 # 0
load_book(file) == file.records

\* The entry of a book record whose key matched, as all_entries decodes it.
decode_entry(record, position, color) ==
  LET raw_move == record[2]
      endian_start_square == (raw_move \div 64) % 64
      endian_end_square == raw_move % 64
      encoded_promotion_piece == (raw_move \div 4096) % 8
      start0 == 10 * (9 - (endian_start_square \div 8)) + (endian_start_square % 8) + 1
      end0 == 10 * (9 - (endian_end_square \div 8)) + (endian_end_square % 8) + 1
      start_square == IF color = "b" THEN 119 - start0 ELSE start0
      end1 == IF color = "b" THEN 119 - end0 ELSE end0
      end_square ==
        IF start_square = 95 \/ start_square = 94
        THEN (IF end1 = H1 THEN start_square + 2
              ELSE IF end1 = A1 THEN start_square - 2
              ELSE end1)
        ELSE end1
  IN  << <<start_square, end_square, position[end_square],
           DECODED_PROMOTION_PIECES[encoded_promotion_piece]>>,
         record[3] >>

RECURSIVE matching_entries(_, _, _, _, _)
matching_entries(opening_book, key, position, color, k) ==
  IF k > Len(opening_book) THEN <<>>
  ELSE (IF opening_book[k][1] = key
        THEN <<decode_entry(opening_book[k], position, color)>>
        ELSE <<>>)
       \o matching_entries(opening_book, key, position, color, k + 1)

all_entries(opening_book, position, castling, opponent_castling, en_passant, king_passant, color) ==
  matching_entries(opening_book,
                   zobrist_hash(position, castling, opponent_castling, en_passant, king_passant, color),
                   position, color, 1)

\* total_entries after new_entry has been combined into it.
combine_entry(total_entries, new_entry) ==
  IF \E i \in 1..Len(total_entries) : total_entries[i][1] = new_entry[1]
  THEN LET i == CHOOSE i \in 1..Len(total_entries) :
                  /\ total_entries[i][1] = new_entry[1]
                  /\ \A j \in 1..(i - 1) : total_entries[j][1] # new_entry[1]
       IN  [total_entries EXCEPT ![i] = <<@[1], @[2] + new_entry[2]>>]
  ELSE Append(total_entries, new_entry)

RECURSIVE combine_entries(_, _, _)
combine_entries(total_entries, entries, k) ==
  IF k > Len(entries) THEN total_entries
  ELSE combine_entries(combine_entry(total_entries, entries[k]), entries, k + 1)

RECURSIVE combine_books(_, _, _, _, _, _, _, _, _)
\* total_entries of book_entries after the loop over OPENING_BOOKS from the
\* k-th book on.
combine_books(total_entries, books, k, position, castling, opponent_castling, en_passant, king_passant, color) ==
  IF k > Len(books) THEN total_entries
  ELSE combine_books(
         combine_entries(total_entries,
                         all_entries(books[k], position, castling, opponent_castling,
                                     en_passant, king_passant, color), 1),
         books, k + 1, position, castling, opponent_castling, en_passant, king_passant, color)

\* evaluate_move raises KeyError when the cell the move starts on holds no
\* piece of the mover (the tables are keyed by P, N, B, R, Q, K), and when a
\* pawn reaches the last rank with no promotion piece.
evaluate_move_raises(move, position) ==
  \/ position[move[1]] \notin {"P", "N", "B", "R", "Q", "K"}
  \/ (position[move[1]] = "P" /\ A8 <= move[2] /\ move[2] <= H8 /\ move[4] = "")

\* book_entries raises when a record with the key of the position cannot be
\* decoded (DECODED_PROMOTION_PIECES has five items) or when max() calls
\* evaluate_move on an entry for which it raises.
book_entries_raises(books, position, castling, opponent_castling, en_passant, king_passant, color) ==
  \E k \in 1..Len(books) : \E n \in 1..Len(books[k]) :
    /\ books[k][n][1] = zobrist_hash(position, castling, opponent_castling, en_passant,
                                      king_passant, color)
    /\ \/ (books[k][n][2] \div 4096) % 8 > 4
       \/ evaluate_move_raises(decode_entry(books[k][n], position, color)[1], position)

\* The moves book_entries can return as weighted_entry.  random.randint may
\* draw the target 0, which the first entry of the shuffled list reaches, and
\* the shuffle may put any entry first; a target is at most the sum of the
\* weights, which the last entry reaches: the pick is some entry, and any
\* entry can be the pick.  With no entry the pick is the null move.
weighted_entries(books, position, castling, opponent_castling, en_passant, king_passant, color) ==
  LET total_entries == combine_books(<<>>, books, 1, position, castling, opponent_castling,
                                     en_passant, king_passant, color)
  IN  IF Len(total_entries) = 0 THEN {NULL_MOVE}
      ELSE {total_entries[i][1] : i \in 1..Len(total_entries)}

(***************************************************************************)
(* SEARCH LOGIC (source lines 844-976)                                     *)
(*                                                                         *)
(* The search reads and writes module-level globals.  They travel through  *)
(* the recursion as a record g:                                            *)
(*   table      TRANSPOSITION_TABLE, a function key -> <<best_move, depth, *)
(*              score>>                                                    *)
(*   nodes, timeout, max_depth   the globals of those names                *)
(*   clock      the number of times the search has read the wall clock     *)
(*   deadline   the first such reading to find start_time + time_limit     *)
(*              passed; time does not run backwards, so every later        *)
(*              reading finds it passed too                                *)
(***************************************************************************)
other_color(color) == IF color = "b" THEN "w" ELSE "b"

\* time.time() - start_time > time_limit, at the reading the clock is at.
time_is_up(g) == g.clock >= g.deadline

\* TRANSPOSITION_TABLE[key] = entry
store(table, key, entry) ==
  Eager([k \in (DOMAIN table) \cup {key} |-> IF k = key THEN entry ELSE table[k]])

\* TRANSPOSITION_TABLE.get(key), and ((0, 0, "", ""), -1, 0) when it is None.
probe(table, key) ==
  IF key \in DOMAIN table THEN table[key] ELSE <<NULL_MOVE, -1, 0>>

RECURSIVE quiesce(_, _, _, _, _, _, _, _)
RECURSIVE quiesce_loop(_, _, _, _, _, _, _, _, _, _, _)
RECURSIVE nega_max(_, _, _, _, _, _, _, _, _, _)
RECURSIVE nega_max_loop(_, _, _, _, _, _, _, _, _, _, _, _, _, _, _)

\* What quiesce does with the score of a capture it searched: result is
\* <<-score, g>> as the recursive call returned it.
quiesce_after(result, alpha, beta, position, castling, opponent_castling, en_passant, king_passant, stand_pat, move_list, k) ==
  IF result[2].timeout THEN <<0, result[2]>>
  ELSE IF -result[1] >= beta THEN <<beta, result[2]>>
  ELSE quiesce_loop(IF -result[1] > alpha THEN -result[1] ELSE alpha, beta, position,
                    castling, opponent_castling, en_passant, king_passant, stand_pat,
                    move_list, k + 1, result[2])

\* The k-th move of quiesce's loop, new_position being the position after it.
quiesce_move(new_position, alpha, beta, position, castling, opponent_castling, en_passant, king_passant, stand_pat, move_list, k, g) ==
  IF \/ king_in_check(new_position[1], castling, new_position[5])
     \/ stand_pat + ENDGAME_PIECE_VALUES[upper(move_list[k][3])]
          + (IF isupper(move_list[k][4]) THEN ENDGAME_PIECE_VALUES[move_list[k][4]] ELSE 0)
          + 200 < alpha
  THEN quiesce_loop(alpha, beta, position, castling, opponent_castling, en_passant,
                    king_passant, stand_pat, move_list, k + 1, g)
  ELSE quiesce_after(quiesce(-beta, -alpha, new_position[1], new_position[2], new_position[3],
                             new_position[4], new_position[5], g),
                     alpha, beta, position, castling, opponent_castling, en_passant,
                     king_passant, stand_pat, move_list, k)

\* quiesce's loop over move_list from the k-th move on; returns <<score, g>>.
quiesce_loop(alpha, beta, position, castling, opponent_castling, en_passant, king_passant, stand_pat, move_list, k, g) ==
  IF k > Len(move_list) THEN <<alpha, g>>
  ELSE IF ~islower(move_list[k][3])
  THEN quiesce_loop(alpha, beta, position, castling, opponent_castling, en_passant,
                    king_passant, stand_pat, move_list, k + 1, g)
  ELSE quiesce_move(make_and_rotate(move_list[k], position, castling, opponent_castling,
                                    en_passant, king_passant),
                    alpha, beta, position, castling, opponent_castling, en_passant,
                    king_passant, stand_pat, move_list, k, g)

\* quiesce once the clock has been read and nodes counted.
quiesce_node(stand_pat, alpha, beta, position, castling, opponent_castling, en_passant, king_passant, g) ==
  IF stand_pat >= beta THEN <<stand_pat, g>>
  ELSE quiesce_loop(IF alpha < stand_pat THEN stand_pat ELSE alpha, beta, position, castling,
                    opponent_castling, en_passant, king_passant, stand_pat,
                    generate_moves(position, castling, en_passant), 1, g)

\* Returns <<score, g>>.
quiesce(alpha, beta, position, castling, opponent_castling, en_passant, king_passant, g) ==
  IF time_is_up(g)
  THEN <<0, [g EXCEPT !.timeout = TRUE, !.clock = @ + 1]>>
  ELSE quiesce_node(evaluate_position(position), alpha, beta, position, castling,
                    opponent_castling, en_passant, king_passant,
                    [g EXCEPT !.clock = @ + 1, !.nodes = @ + 1])

\* "basic PV move ordering": the first move equal to the table's move goes to
\* the front of move_list.
pv_first(move_list, table_move) ==
  IF \E i \in 1..Len(move_list) : move_list[i] = table_move
  THEN LET i == CHOOSE i \in 1..Len(move_list) :
                  /\ move_list[i] = table_move
                  /\ \A j \in 1..(i - 1) : move_list[j] # table_move
       IN  <<move_list[i]>> \o SubSeq(move_list, 1, i - 1) \o SubSeq(move_list, i + 1, Len(move_list))
  ELSE move_list

\* What nega_max does with the result of the recursive call on its k-th
\* move: result is <<score of the call, its move, g>>.
nega_max_after(result, depth, alpha, beta, position, castling, opponent_castling, en_passant, king_passant, color, key, move_list, k, best_move, legal) ==
  IF result[3].timeout THEN <<0, NULL_MOVE, result[3]>>
  ELSE IF -result[1] >= beta THEN <<beta, best_move, result[3]>>
  ELSE nega_max_loop(depth, IF -result[1] > alpha THEN -result[1] ELSE alpha, beta, position,
                     castling, opponent_castling, en_passant, king_passant, color, key,
                     move_list, k + 1,
                     IF -result[1] > alpha THEN move_list[k] ELSE best_move,
                     legal + 1, result[3])

\* The k-th move of nega_max's loop, new_position being the position after it.
nega_max_move(new_position, depth, alpha, beta, position, castling, opponent_castling, en_passant, king_passant, color, key, move_list, k, best_move, legal, g) ==
  IF king_in_check(new_position[1], castling, new_position[5])
  THEN nega_max_loop(depth, alpha, beta, position, castling, opponent_castling, en_passant,
                     king_passant, color, key, move_list, k + 1, best_move, legal, g)
  ELSE nega_max_after(nega_max(depth - 1, -beta, -alpha, new_position[1], new_position[2],
                               new_position[3], new_position[4], new_position[5],
                               other_color(color), g),
                      depth, alpha, beta, position, castling, opponent_castling, en_passant,
                      king_passant, color, key, move_list, k, best_move, legal)

\* The score nega_max returns when len(legal_moves) == 0: that of a mate
\* max_depth - depth plies from the root when the mover is in check, and 0,
\* a stalemate, when not.
no_move_score(depth, position, castling, opponent_castling, en_passant, king_passant, g) ==
  IF king_in_check(rotate_position(position, castling, opponent_castling, en_passant,
                                   king_passant)[1], castling, 0)
  THEN (-CHECKMATE_LOWER) + g.max_depth - depth
  ELSE 0

\* nega_max_loop writing the table whether or not a move raised alpha.
nega_max_loop_always_storing(depth, alpha, beta, position, castling, opponent_castling, en_passant, king_passant, color, key, move_list, k, best_move, legal, g) ==
  IF k <= Len(move_list)
  THEN nega_max_move(make_and_rotate(move_list[k], position, castling, opponent_castling,
                                     en_passant, king_passant),
                     depth, alpha, beta, position, castling, opponent_castling, en_passant,
                     king_passant, color, key, move_list, k, best_move, legal, g)
  ELSE IF legal = 0
  THEN <<no_move_score(depth, position, castling, opponent_castling, en_passant, king_passant, g),
         NULL_MOVE, g>>
  ELSE <<alpha, best_move, [g EXCEPT !.table = store(@, key, <<best_move, depth, alpha>>)]>>

\* nega_max's loop over move_list from the k-th move on and what follows it;
\* legal is len(legal_moves).  Returns <<score, best_move, g>>.
nega_max_loop(depth, alpha, beta, position, castling, opponent_castling, en_passant, king_passant, color, key, move_list, k, best_move, legal, g) ==
  IF k <= Len(move_list)
  THEN nega_max_move(make_and_rotate(move_list[k], position, castling, opponent_castling,
                                     en_passant, king_passant),
                     depth, alpha, beta, position, castling, opponent_castling, en_passant,
                     king_passant, color, key, move_list, k, best_move, legal, g)
  ELSE IF legal = 0
  THEN <<no_move_score(depth, position, castling, opponent_castling, en_passant, king_passant, g),
         NULL_MOVE, g>>
  ELSE IF best_move # NULL_MOVE
  THEN <<alpha, best_move, [g EXCEPT !.table = store(@, key, <<best_move, depth, alpha>>)]>>
  ELSE <<alpha, best_move, g>>

\* nega_max searching the node whatever the table holds for it.
nega_max_node_searching_again(table_info, depth, alpha, beta, position, castling, opponent_castling, en_passant, king_passant, color, key, g) ==
  nega_max_loop(depth, alpha, beta, position, castling, opponent_castling, en_passant,
                king_passant, color, key,
                pv_first(generate_moves(position, castling, en_passant), table_info[1]),
                1, NULL_MOVE, 0, [g EXCEPT !.nodes = @ + 1])

\* nega_max from the probe of the transposition table on.
nega_max_node(table_info, depth, alpha, beta, position, castling, opponent_castling, en_passant, king_passant, color, key, g) ==
  IF table_info[2] >= depth \/ table_info[3] >= CHECKMATE_LOWER
  THEN <<table_info[3], table_info[1], g>>
  ELSE nega_max_loop(depth, alpha, beta, position, castling, opponent_castling, en_passant,
                     king_passant, color, key,
                     pv_first(generate_moves(position, castling, en_passant), table_info[1]),
                     1, NULL_MOVE, 0, [g EXCEPT !.nodes = @ + 1])

\* nega_max once the key of the position is known.
nega_max_keyed(key, depth, alpha, beta, position, castling, opponent_castling, en_passant, king_passant, color, g) ==
  nega_max_node(probe(g.table, key), depth, alpha, beta, position, castling,
                opponent_castling, en_passant, king_passant, color, key, g)

\* Returns <<score, best_move, g>>.
nega_max(depth, alpha, beta, position, castling, opponent_castling, en_passant, king_passant, color, g) ==
  IF time_is_up(g)
  THEN <<0, NULL_MOVE, [g EXCEPT !.timeout = TRUE, !.clock = @ + 1]>>
  ELSE IF depth = 0
  THEN LET q == quiesce(alpha, beta, position, castling, opponent_castling, en_passant,
                        king_passant, [g EXCEPT !.clock = @ + 1])
       IN  <<q[1], NULL_MOVE, q[2]>>
  ELSE nega_max_keyed(zobrist_hash(position, castling, opponent_castling, en_passant,
                                   king_passant, color),
                      depth, alpha, beta, position, castling, opponent_castling, en_passant,
                      king_passant, color, [g EXCEPT !.clock = @ + 1])

RECURSIVE principal_variation(_, _, _, _, _, _, _, _)
principal_variation(length, position, castling, opponent_castling, en_passant, king_passant, color, table) ==
  LET key == zobrist_hash(position, castling, opponent_castling, en_passant, king_passant, color)
  IN  IF key \notin DOMAIN table \/ length <= 0 THEN <<>>
      ELSE LET best_move == table[key][1]
               new_position == make_and_rotate(best_move, position, castling, opponent_castling,
                                               en_passant, king_passant)
           IN  <<best_move>>
               \o principal_variation(length - 1, new_position[1], new_position[2],
                                      new_position[3], new_position[4], new_position[5],
                                      other_color(color), table)

(***************************************************************************)
(* UTILITY FUNCTIONS (source lines 983-1093)                               *)
(*                                                                         *)
(* A Python string that the program takes apart character by character is  *)
(* a sequence of one-character strings here.                               *)
(***************************************************************************)
DIGITS == <<"0", "1", "2", "3", "4", "5", "6", "7", "8", "9">>

LETTERS == <<"a", "b", "c", "d", "e", "f", "g", "h", "i", "j", "k", "l", "m",
             "n", "o", "p", "q", "r", "s", "t", "u", "v", "w", "x", "y", "z">>

index_in(list, c) == CHOOSE i \in 1..Len(list) : list[i] = c

is_digit_char(c) == \E i \in 1..10 : DIGITS[i] = c

\* ord(c) for the characters the utilities take the code of.
ord(c) ==
  IF is_digit_char(c) THEN 47 + index_in(DIGITS, c)
  ELSE IF \E i \in 1..26 : LETTERS[i] = c THEN 96 + index_in(LETTERS, c)
  ELSE IF \E i \in 1..26 : upper(LETTERS[i]) = c
       THEN 64 + (CHOOSE i \in 1..26 : upper(LETTERS[i]) = c)
  ELSE CASE c = "-" -> 45 [] c = "/" -> 47

\* chr(code) for the letters render_coordinates can produce; the codes
\* just beyond "z" are the ASCII characters there.
chr(code) ==
  IF code \in 97..122 THEN LETTERS[code - 96]
  ELSE <<"{", "|", "}", "~">>[code - 122]

\* str.isdigit()
isdigit(string) == Len(string) > 0 /\ \A i \in 1..Len(string) : is_digit_char(string[i])

RECURSIVE int_of(_, _)
int_of(string, k) ==
  IF k = 0 THEN 0 ELSE (10 * int_of(string, k - 1)) + (ord(string[k]) - 48)

\* int(string) of a string of digits
int(string) == int_of(string, Len(string))

RECURSIVE str_of(_)
str_of(n) == IF n < 10 THEN <<DIGITS[n + 1]>> ELSE str_of(n \div 10) \o <<DIGITS[(n % 10) + 1]>>

\* str(n)
str(n) == IF n < 0 THEN <<"-">> \o str_of(-n) ELSE str_of(n)

parse_coordinates(coordinate) ==
  LET file == ord(coordinate[1]) - ord("a")
      rank == int(<<coordinate[2]>>) - 1
  IN  (A1 + file) - (10 * rank)

render_coordinates(index) ==
  LET rank == (index - A1) \div 10
      file == (index - A1) % 10
  IN  <<chr(ord("a") + file)>> \o str(1 - rank)

NONE == <<"(", "n", "o", "n", "e", ")">>

lower_string(string) == [i \in 1..Len(string) |-> lower(string[i])]

\* move[3] as a sequence of characters: "" has none.
chars_of_piece(piece) == IF piece = "" THEN <<>> ELSE <<piece>>

algebraic_notation(move, color) ==
  LET start_square == IF color = "b" THEN 119 - move[1] ELSE move[1]
      end_square == IF color = "b" THEN 119 - move[2] ELSE move[2]
  IN  IF move = NULL_MOVE THEN NONE
      ELSE render_coordinates(start_square) \o render_coordinates(end_square)
             \o lower_string(chars_of_piece(move[4]))

\* string.split(separator), from the k-th character on, the characters of
\* the piece being collected in current.
RECURSIVE split_from(_, _, _, _)
split_from(string, separator, k, current) ==
  IF k > Len(string) THEN <<current>>
  ELSE IF string[k] = separator
  THEN <<current>> \o split_from(string, separator, k + 1, <<>>)
  ELSE split_from(string, separator, k + 1, Append(current, string[k]))

split(string, separator) == split_from(string, separator, 1, <<>>)

\* "".join(string) for the strings load_fen stores as a colour: a colour
\* field of one character is that character, any other is neither "w" nor
\* "b".
joined(string) == IF Len(string) = 1 THEN string[1] ELSE "??"

\* character in string
contains(string, c) == \E i \in 1..Len(string) : string[i] = c

\* load_fen's loop over the characters of one row: cells maps the cells
\* written so far to their characters.
RECURSIVE load_fen_row(_, _, _, _)
load_fen_row(cells, index, row, k) ==
  IF k > Len(row) THEN cells
  ELSE IF row[k] \in DOMAIN PIECE_ENCODINGS
  THEN load_fen_row((index :> row[k]) @@ cells, index + 1, row, k + 1)
  ELSE IF is_digit_char(row[k]) /\ row[k] # "0" /\ row[k] # "9"
  THEN load_fen_row([i \in index..(index + int(<<row[k]>>) - 1) |-> "."] @@ cells,
                    index + int(<<row[k]>>), row, k + 1)
  ELSE load_fen_row(cells, index, row, k + 1)

RECURSIVE load_fen_rows(_, _, _)
load_fen_rows(cells, rows, row) ==
  IF row = 8 THEN cells
  ELSE load_fen_rows(load_fen_row(cells, A8 + (10 * row), rows[row + 1], 1), rows, row + 1)

\* load_fen raises on a placement field of fewer than eight rows and on an
\* en-passant field that is not "-" and has no digit for second character.
load_fen_raises(fields) ==
  \/ Len(split(fields[1], "/")) < 8
  \/ /\ fields[4] # <<"-">>
     /\ (Len(fields[4]) < 2 \/ ~is_digit_char(fields[4][2]))

\* Returns <<position, castling, opponent_castling, en_passant,
\* king_passant, color>>; fields are the fields of the FEN string.
load_fen(fields) ==
  LET cells == load_fen_rows(<<>>, split(fields[1], "/"), 0)
      position == Eager([i \in 0..119 |->
                           IF i % 10 = 9 THEN "\n"
                           ELSE IF i \in DOMAIN cells THEN cells[i] ELSE " "])
      castling == <<contains(fields[3], "Q"), contains(fields[3], "K")>>
      opponent_castling == <<contains(fields[3], "q"), contains(fields[3], "k")>>
      en_passant == IF fields[4] # <<"-">> THEN parse_coordinates(fields[4]) ELSE 0
  IN  IF fields[2] = <<"b">>
      THEN rotate_position(position, castling, opponent_castling, en_passant, 0) \o <<"b">>
      ELSE <<position, castling, opponent_castling, en_passant, 0, joined(fields[2])>>

\* generate_fen's loop over the files of one rank: the characters of the
\* rank's field, from the given file on.
RECURSIVE generate_fen_rank(_, _, _, _)
generate_fen_rank(position, rank, file, empty_squares) ==
  IF file = 8
  THEN (IF empty_squares > 0 THEN str(empty_squares) ELSE <<>>)
  ELSE LET piece == position[(10 * (rank + 2)) + file + 1]
       IN  IF piece = "."
           THEN generate_fen_rank(position, rank, file + 1, empty_squares + 1)
           ELSE (IF empty_squares > 0 THEN str(empty_squares) ELSE <<>>)
                  \o <<piece>> \o generate_fen_rank(position, rank, file + 1, 0)

RECURSIVE generate_fen_ranks(_, _)
generate_fen_ranks(position, rank) ==
  IF rank = 8 THEN <<>>
  ELSE generate_fen_rank(position, rank, 0, 0)
         \o (IF rank < 7 THEN <<"/">> ELSE <<>>)
         \o generate_fen_ranks(position, rank + 1)

\* The state generate_fen and display_board read: rotated when black is
\* to move.
white_view(position, castling, opponent_castling, en_passant, king_passant, color) ==
  IF color = "b"
  THEN rotate_position(position, castling, opponent_castling, en_passant, king_passant)
  ELSE <<position, castling, opponent_castling, en_passant, king_passant>>

\* The FEN string, as its characters.
generate_fen(position, castling, opponent_castling, en_passant, king_passant, color) ==
  LET view == white_view(position, castling, opponent_castling, en_passant, king_passant, color)
  IN  generate_fen_ranks(view[1], 0)
        \o (IF color = "w" THEN <<" ", "w">> ELSE <<" ", "b">>)
        \o (IF view[2][1] \/ view[2][2] \/ view[3][1] \/ view[3][2]
            THEN <<" ">> \o (IF view[2][2] THEN <<"K">> ELSE <<>>)
                         \o (IF view[2][1] THEN <<"Q">> ELSE <<>>)
                         \o (IF view[3][2] THEN <<"k">> ELSE <<>>)
                         \o (IF view[3][1] THEN <<"q">> ELSE <<>>)
            ELSE <<" ", "-">>)
        \o (IF view[4] = 0 \/ view[4] = 119 THEN <<" ", "-">>
            ELSE <<" ">> \o render_coordinates(view[4]))
        \o <<" ", "0", " ", "1">>

\* The rows of display_board that show pieces, each as the eight
\* characters between its bars (" " for an empty cell) and its rank
\* number; the frame lines between them and the line of file letters are
\* the same for every position.  With unicode, each piece letter stands
\* for its entry of UNICODE_PIECE_SYMBOLS.
display_board(position, castling, opponent_castling, en_passant, king_passant, color, unicode) ==
  LET view == white_view(position, castling, opponent_castling, en_passant, king_passant, color)
  IN  [line \in 1..8 |->
         [kind |-> "board",
          unicode |-> unicode,
          row |-> [file \in 1..8 |->
                     IF view[1][(10 * (line + 1)) + file] = "." THEN " "
                     ELSE view[1][(10 * (line + 1)) + file]],
          number |-> str(9 - line)]]

\* len(position): the position is the empty string until a position
\* command sets it.
len(position) == IF position = <<>> THEN 0 ELSE 120

(***************************************************************************)
(* ITERATIVE DEEPENING (source lines 938-976)                              *)
(***************************************************************************)
RECURSIVE pv_strings(_, _, _)
\* The moves of the principal variation in algebraic notation, the i-th
\* (from 0) for color when i is even and for the other colour when odd.
pv_strings(pv, color, i) ==
  IF i >= Len(pv) THEN <<>>
  ELSE <<algebraic_notation(pv[i + 1], IF i % 2 = 0 THEN color
                                       ELSE (IF color = "w" THEN "b" ELSE "w"))>>
         \o pv_strings(pv, color, i + 1)

\* The line "info depth .. score cp .. nodes .. time .. pv ..": the time
\* field is a reading of the wall clock and is left out.
info_line(score, position, castling, opponent_castling, en_passant, king_passant, color, g) ==
  [kind |-> "info",
   depth |-> g.max_depth,
   score |-> score * (IF color = "b" THEN -1 ELSE 1),
   nodes |-> g.nodes,
   pv |-> pv_strings(principal_variation(g.max_depth, position, castling, opponent_castling,
                                         en_passant, king_passant, color, g.table), color, 0)]

RECURSIVE deepen(_, _, _, _, _, _, _, _, _, _, _, _)
\* deepen_after with a timeout handled like a completed iteration: the move
\* of the interrupted iteration is returned and the flag stays set.
deepen_after_unguarded(result, max_depth, depth, previous_best_move, position, castling, opponent_castling, en_passant, king_passant, color, lines, iterations) ==
  [best_move |-> result[2],
   g |-> result[3],
   lines |-> IF result[3].timeout THEN lines
             ELSE Append(lines, info_line(result[1], position, castling, opponent_castling,
                                          en_passant, king_passant, color, result[3])),
   iterations |-> Append(iterations, [max_depth |-> max_depth, timeout |-> result[3].timeout,
                                      best_move |-> result[2]])]

\* What the loop of iteratively_deepen does with the result of nega_max
\* for the iteration max_depth; result is <<score, best_move, g>>.
deepen_after(result, max_depth, depth, previous_best_move, position, castling, opponent_castling, en_passant, king_passant, color, lines, iterations) ==
  IF result[3].timeout
  THEN [best_move |-> previous_best_move,
        g |-> [result[3] EXCEPT !.timeout = FALSE],
        lines |-> lines,
        iterations |-> Append(iterations, [max_depth |-> max_depth, timeout |-> TRUE,
                                           best_move |-> result[2]])]
  ELSE IF result[2] = NULL_MOVE
  THEN [best_move |-> result[2],
        g |-> result[3],
        lines |-> Append(lines, info_line(result[1], position, castling, opponent_castling,
                                          en_passant, king_passant, color, result[3])),
        iterations |-> Append(iterations, [max_depth |-> max_depth, timeout |-> FALSE,
                                           best_move |-> result[2]])]
  ELSE deepen(max_depth + 1, depth, result[2], result[2], position, castling, opponent_castling,
              en_passant, king_passant, color, result[3],
              <<Append(lines, info_line(result[1], position, castling, opponent_castling,
                                        en_passant, king_passant, color, result[3])),
                Append(iterations, [max_depth |-> max_depth, timeout |-> FALSE,
                                    best_move |-> result[2]])>>)

\* The loop "for max_depth in range(1, depth + 1)" from max_depth on.
\* trace is <<lines sent so far, iterations run so far>>; an iteration is
\* recorded with its max_depth, whether it timed out, and the move nega_max
\* returned for it.
deepen(max_depth, depth, best_move, previous_best_move, position, castling, opponent_castling, en_passant, king_passant, color, g, trace) ==
  IF max_depth > depth
  THEN [best_move |-> best_move, g |-> g, lines |-> trace[1], iterations |-> trace[2]]
  ELSE deepen_after(nega_max(max_depth, -CHECKMATE_UPPER, CHECKMATE_UPPER, position, castling,
                             opponent_castling, en_passant, king_passant, color,
                             [g EXCEPT !.max_depth = max_depth, !.nodes = 0]),
                    max_depth, depth, previous_best_move, position, castling, opponent_castling,
                    en_passant, king_passant, color, trace[1], trace[2])

\* iteratively_deepen for the book move weighted_entry that book_entries
\* returned (the null move when the books hold none for the position).  g
\* holds the globals on entry, the clock at its start and the deadline of
\* this search.
iteratively_deepen(depth, position, castling, opponent_castling, en_passant, king_passant, color, weighted_entry, g) ==
  IF weighted_entry # NULL_MOVE
  THEN [best_move |-> weighted_entry, g |-> g,
        lines |-> <<[kind |-> "info string", string |-> "weighted bookmove"]>>,
        iterations |-> <<>>]
  ELSE deepen(1, depth, NULL_MOVE, NULL_MOVE, position, castling, opponent_castling,
              en_passant, king_passant, color, [g EXCEPT !.timeout = FALSE], <<<<>>, <<>>>>)

\* The tokens of the lines below, each with its characters.
WORDS ==
  { <<"-", <<"-">>>>,
    <<"0", <<"0">>>>,
    <<"1", <<"1">>>>,
    <<"1000", <<"1", "0", "0", "0">>>>,
    <<"120000", <<"1", "2", "0", "0", "0", "0">>>>,
    <<"2", <<"2">>>>,
    <<"2000", <<"2", "0", "0", "0">>>>,
    <<"3", <<"3">>>>,
    <<"3000", <<"3", "0", "0", "0">>>>,
    <<"30000", <<"3", "0", "0", "0", "0">>>>,
    <<"4k3/8/8/8/8/8/3p4/4K2R", <<"4", "k", "3", "/", "8", "/", "8", "/", "8", "/", "8", "/", "8", "/", "3", "p", "4", "/", "4", "K", "2", "R">>>>,
    <<"4k3/8/8/8/8/8/8/R3K2R", <<"4", "k", "3", "/", "8", "/", "8", "/", "8", "/", "8", "/", "8", "/", "8", "/", "R", "3", "K", "2", "R">>>>,
    <<"500", <<"5", "0", "0">>>>,
    <<"7k/8/8/8/8/8/2q5/K7", <<"7", "k", "/", "8", "/", "8", "/", "8", "/", "8", "/", "8", "/", "2", "q", "5", "/", "K", "7">>>>,
    <<"8/4k3/4P3/3p4/8/1q6/8/K7", <<"8", "/", "4", "k", "3", "/", "4", "P", "3", "/", "3", "p", "4", "/", "8", "/", "1", "q", "6", "/", "8", "/", "K", "7">>>>,
    <<"8/8/8/8/8/1K6/2R5/k7", <<"8", "/", "8", "/", "8", "/", "8", "/", "8", "/", "1", "K", "6", "/", "2", "R", "5", "/", "k", "7">>>>,
    <<"8/8/8/8/8/1K6/8/k1R5", <<"8", "/", "8", "/", "8", "/", "8", "/", "8", "/", "1", "K", "6", "/", "8", "/", "k", "1", "R", "5">>>>,
    <<"8/8/8/8/8/1k6/8/K1r5", <<"8", "/", "8", "/", "8", "/", "8", "/", "8", "/", "1", "k", "6", "/", "8", "/", "K", "1", "r", "5">>>>,
    <<"8/8/8/8/8/6p1/5kp1/7K", <<"8", "/", "8", "/", "8", "/", "8", "/", "8", "/", "6", "p", "1", "/", "5", "k", "p", "1", "/", "7", "K">>>>,
    <<"8/8/8/8/8/k7/8/8", <<"8", "/", "8", "/", "8", "/", "8", "/", "8", "/", "k", "7", "/", "8", "/", "8">>>>,
    <<"8/8/8/8/8/k7/8/K7", <<"8", "/", "8", "/", "8", "/", "8", "/", "8", "/", "k", "7", "/", "8", "/", "K", "7">>>>,
    <<"K", <<"K">>>>,
    <<"KQkq", <<"K", "Q", "k", "q">>>>,
    <<"Q", <<"Q">>>>,
    <<"a1b1", <<"a", "1", "b", "1">>>>,
    <<"b", <<"b">>>>,
    <<"binc", <<"b", "i", "n", "c">>>>,
    <<"board", <<"b", "o", "a", "r", "d">>>>,
    <<"btime", <<"b", "t", "i", "m", "e">>>>,
    <<"c2c1", <<"c", "2", "c", "1">>>>,
    <<"d6", <<"d", "6">>>>,
    <<"depth", <<"d", "e", "p", "t", "h">>>>,
    <<"e2", <<"e", "2">>>>,
    <<"e2e4", <<"e", "2", "e", "4">>>>,
    <<"e3", <<"e", "3">>>>,
    <<"e7e5", <<"e", "7", "e", "5">>>>,
    <<"eval", <<"e", "v", "a", "l">>>>,
    <<"fen", <<"f", "e", "n">>>>,
    <<"flip", <<"f", "l", "i", "p">>>>,
    <<"go", <<"g", "o">>>>,
    <<"isready", <<"i", "s", "r", "e", "a", "d", "y">>>>,
    <<"k", <<"k">>>>,
    <<"k7/8/1K6/8/8/8/8/8", <<"k", "7", "/", "8", "/", "1", "K", "6", "/", "8", "/", "8", "/", "8", "/", "8", "/", "8">>>>,
    <<"moves", <<"m", "o", "v", "e", "s">>>>,
    <<"movetime", <<"m", "o", "v", "e", "t", "i", "m", "e">>>>,
    <<"position", <<"p", "o", "s", "i", "t", "i", "o", "n">>>>,
    <<"quit", <<"q", "u", "i", "t">>>>,
    <<"r3k2r/8/8/8/8/8/8/4K3", <<"r", "3", "k", "2", "r", "/", "8", "/", "8", "/", "8", "/", "8", "/", "8", "/", "8", "/", "4", "K", "3">>>>,
    <<"rnbqkb1r/pppppppp/8/8/4P3/4nN2/PPPPBPPP/RNBQK2R", <<"r", "n", "b", "q", "k", "b", "1", "r", "/", "p", "p", "p", "p", "p", "p", "p", "p", "/", "8", "/", "8", "/", "4", "P", "3", "/", "4", "n", "N", "2", "/", "P", "P", "P", "P", "B", "P", "P", "P", "/", "R", "N", "B", "Q", "K", "2", "R">>>>,
    <<"rnbqkbnr/1ppppp1P/8/8/p7/8/PPPPPPP1/RNBQKBNR", <<"r", "n", "b", "q", "k", "b", "n", "r", "/", "1", "p", "p", "p", "p", "p", "1", "P", "/", "8", "/", "8", "/", "p", "7", "/", "8", "/", "P", "P", "P", "P", "P", "P", "P", "1", "/", "R", "N", "B", "Q", "K", "B", "N", "R">>>>,
    <<"startpos", <<"s", "t", "a", "r", "t", "p", "o", "s">>>>,
    <<"stop", <<"s", "t", "o", "p">>>>,
    <<"uci", <<"u", "c", "i">>>>,
    <<"unicode", <<"u", "n", "i", "c", "o", "d", "e">>>>,
    <<"w", <<"w">>>>,
    <<"winc", <<"w", "i", "n", "c">>>>,
    <<"wtime", <<"w", "t", "i", "m", "e">>>>,
    <<"x", <<"x">>>> }

\* Lines other than position and go commands, the empty line and an unknown
\* command among them.
OTHER_LINES ==
  { <<>>,
    <<"uci">>,
    <<"quit">>,
    <<"isready">>,
    <<"eval">>,
    <<"board">>,
    <<"board", "unicode">>,
    <<"flip">>,
    <<"stop">> }

\* position commands: the start position and small positions given as FEN,
\* with and without moves, a move token that is too short, and a position in
\* which the side to move has no king.
POSITION_LINES ==
  { <<"position">>,
    <<"position", "startpos">>,
    <<"position", "startpos", "moves">>,
    <<"position", "startpos", "moves", "e2e4">>,
    <<"position", "startpos", "moves", "e2e4", "e7e5">>,
    <<"position", "startpos", "moves", "e2">>,
    <<"position", "fen", "8/8/8/8/8/k7/8/K7", "w", "-", "-", "0", "1">>,
    <<"position", "fen", "8/8/8/8/8/k7/8/K7", "b", "-", "-", "0", "1">>,
    <<"position", "fen", "8/8/8/8/8/k7/8/K7", "w", "-", "-", "0", "1", "moves", "a1b1">>,
    <<"position", "fen", "8/8/8/8/8/1k6/8/K1r5", "w", "-", "-", "0", "1">>,
    <<"position", "fen", "7k/8/8/8/8/8/2q5/K7", "w", "-", "-", "0", "1">>,
    <<"position", "fen", "8/8/8/8/8/k7/8/8", "w", "-", "-", "0", "1">> }

\* position commands for the searches taken by themselves: small positions,
\* among them a mate by a rook with white and with black to move, a stalemate,
\* a mate by a pawn, a mate in one before and after the mating move, a
\* stalemate with a blocked pawn, and a king in the corner with one or two
\* replies to each move.
SEARCH_LINES ==
  { <<"position", "fen", "8/8/8/8/8/k7/8/K7", "w", "-", "-", "0", "1">>,
    <<"position", "fen", "8/8/8/8/8/1k6/8/K1r5", "w", "-", "-", "0", "1">>,
    <<"position", "fen", "8/8/8/8/8/1K6/8/k1R5", "b", "-", "-", "0", "1">>,
    <<"position", "fen", "7k/8/8/8/8/8/2q5/K7", "w", "-", "-", "0", "1">>,
    <<"position", "fen", "8/8/8/8/8/6p1/5kp1/7K", "w", "-", "-", "0", "1">>,
    <<"position", "fen", "8/8/8/8/8/1K6/2R5/k7", "w", "-", "-", "0", "1">>,
    <<"position", "fen", "8/8/8/8/8/1K6/2R5/k7", "w", "-", "-", "0", "1", "moves", "c2c1">>,
    <<"position", "fen", "8/4k3/4P3/3p4/8/1q6/8/K7", "w", "-", "-", "0", "1">>,
    <<"position", "fen", "k7/8/1K6/8/8/8/8/8", "w", "-", "-", "0", "1">> }

\* position commands searched before one of SEARCH_LINES: the board of the
\* stalemate with the blocked pawn when black has just pushed its pawn two
\* cells.
SEARCHED_LINES ==
  { <<"position", "fen", "8/4k3/4P3/3p4/8/1q6/8/K7", "w", "-", "d6", "0", "1">> }

\* position commands from which moves are played: the start position, and
\* positions where the mover may castle: white in check from a pawn, white
\* with the queenside right alone, black with the kingside right alone; and
\* two positions as board prints them along a game from the start position:
\* after e2e4 g8f6 f1e2 f6g4 g1f3 g4e3, and after h2h4 g7g5 h4g5 a7a6 g5g6
\* a6a5 g6h7 a5a4.
PLAY_LINES ==
  { <<"position", "startpos">>,
    <<"position", "fen", "4k3/8/8/8/8/8/3p4/4K2R", "w", "K", "-", "0", "1">>,
    <<"position", "fen", "4k3/8/8/8/8/8/8/R3K2R", "w", "Q", "-", "0", "1">>,
    <<"position", "fen", "r3k2r/8/8/8/8/8/8/4K3", "b", "k", "-", "0", "1">>,
    <<"position", "fen", "rnbqkb1r/pppppppp/8/8/4P3/4nN2/PPPPBPPP/RNBQK2R", "w", "KQkq", "e3", "0", "1">>,
    <<"position", "fen", "rnbqkbnr/1ppppp1P/8/8/p7/8/PPPPPPP1/RNBQKBNR", "w", "KQkq", "-", "0", "1">> }

\* go commands: with and without limits, and with arguments missing or not
\* numeric.
GO_LINES ==
  { <<"go">>,
    <<"go", "depth", "0">>,
    <<"go", "depth", "1">>,
    <<"go", "depth", "2">>,
    <<"go", "depth", "3">>,
    <<"go", "movetime", "2000">>,
    <<"go", "wtime", "120000", "btime", "30000", "winc", "1000", "binc", "2000">>,
    <<"go", "wtime", "30000">>,
    <<"go", "btime", "120000">>,
    <<"go", "movetime", "500", "winc", "3000", "depth", "2">>,
    <<"go", "depth">>,
    <<"go", "depth", "x">>,
    <<"go", "movetime">>,
    <<"go", "wtime", "btime">> }

LINES == OTHER_LINES \cup POSITION_LINES \cup GO_LINES
(***************************************************************************)
(* UCI PROTOCOL (source lines 1096-1252)                                   *)
(*                                                                         *)
(* A line read from stdin is the sequence of its tokens, command.split().  *)
(* chars(token) is the token as a sequence of characters, for the code     *)
(* that indexes into a token.                                              *)
(***************************************************************************)
chars(token) == (CHOOSE word \in WORDS : word[1] = token)[2]

\* token in tokens
in(token, tokens) == \E i \in 1..Len(tokens) : tokens[i] = token

\* tokens.index(token) + 1, as an index of this module's sequences, which
\* start at 1: the place of the token after the first occurrence of token.
index_after(token, tokens) ==
  (CHOOSE i \in 1..Len(tokens) : tokens[i] = token /\ \A j \in 1..(i - 1) : tokens[j] # token) + 1

\* "if move[1].isdigit() and move[3].isdigit()" raises IndexError on a move
\* token too short for the characters it reads.
move_raises(move) ==
  Len(move) < 2 \/ (is_digit_char(move[2]) /\ Len(move) < 4)

\* move[4:].upper() of the move tokens of up to five characters
promotion_of(move) == IF Len(move) > 4 THEN upper(move[5]) ELSE ""

\* The move tuple that the loop of the position command makes of a move
\* token at the given ply.
parsed_move(move, color, ply) ==
  LET start_square == parse_coordinates(SubSeq(move, 1, 2))
      end_square == parse_coordinates(SubSeq(move, 3, 4))
      flipped == (color = "b") # (ply % 2 = 1)
  IN  <<IF flipped THEN 119 - start_square ELSE start_square,
        IF flipped THEN 119 - end_square ELSE end_square,
        ".", promotion_of(move)>>

\* One pass of the loop of the position command over a move token that is
\* in long algebraic notation; state is <<position, castling,
\* opponent_castling, en_passant, king_passant>>.
play_parsed(move, state, ply) ==
  IF ply % 2 = 1
  THEN make_and_rotate(move, state[1], state[2], state[3], state[4], state[5])
  ELSE make_move(move, state[1], state[2], state[3], state[4], state[5])

play_token(move, state, color, ply) ==
  play_parsed(parsed_move(move, color, ply),
              IF ply % 2 = 1
              THEN rotate_position(state[1], state[2], state[3], state[4], state[5])
              ELSE state,
              ply)

RECURSIVE play_tokens(_, _, _, _)
\* One pass of the loop, move being the characters of the token.
play_next(move, moves, state, color, ply) ==
  IF move_raises(move) THEN [raises |-> TRUE, state |-> state]
  ELSE IF is_digit_char(move[2]) /\ is_digit_char(move[4])
  THEN (IF len(state[1]) = 0 THEN [raises |-> TRUE, state |-> state]
        ELSE play_tokens(moves, play_token(move, state, color, ply), color, ply + 1))
  ELSE play_tokens(moves, state, color, ply + 1)

\* The loop "for ply, move in enumerate(moves)" from the given ply on.
\* make_move raises on the empty position.
play_tokens(moves, state, color, ply) ==
  IF ply >= Len(moves) THEN [raises |-> FALSE, state |-> state]
  ELSE play_next(chars(moves[ply + 1]), moves, state, color, ply)

\* The value of ply after the loop: the index of the last token, and 0
\* when there is none.
last_ply(moves) == IF Len(moves) = 0 THEN 0 ELSE Len(moves) - 1

\* moves = tokens[tokens.index("moves") + 1:]
moves_after(tokens) == SubSeq(tokens, index_after("moves", tokens), Len(tokens))

\* What follows the loop over the moves, played being the outcome of the
\* loop: the rotation that depends on the last ply.
position_played(moves, played, state) ==
  IF played.raises THEN [raises |-> TRUE, continues |-> FALSE, state |-> state]
  ELSE IF last_ply(moves) % 2 = 0
  THEN (IF len(played.state[1]) = 0
        THEN [raises |-> TRUE, continues |-> FALSE, state |-> state]
        ELSE [raises |-> FALSE, continues |-> FALSE,
              state |-> rotate_position(played.state[1], played.state[2], played.state[3],
                                        played.state[4], played.state[5])
                        \o <<IF state[6] = "w" THEN "b"
                             ELSE IF state[6] = "b" THEN "w" ELSE state[6]>>])
  ELSE [raises |-> FALSE, continues |-> FALSE, state |-> played.state \o <<state[6]>>]

\* The part of the position command that follows `if "moves" in tokens`;
\* state is <<position, castling, opponent_castling, en_passant,
\* king_passant, color>>.  Returns whether it raised, whether it reached
\* `continue`, and the state.
position_moves(tokens, state) ==
  IF index_after("moves", tokens) < 4
  THEN [raises |-> FALSE, continues |-> TRUE, state |-> state]
  ELSE position_played(moves_after(tokens), play_tokens(moves_after(tokens), SubSeq(state, 1, 5), state[6], 0), state)

\* The part of the position command that precedes `if "moves" in tokens`.
position_set(tokens, state) ==
  IF Len(tokens) >= 2 /\ tokens[2] = "startpos"
  THEN [raises |-> FALSE,
        state |-> <<INITIAL_POSITION, INITIAL_CASTLING, INITIAL_OPPONENT_CASTLING,
                    INITIAL_EN_PASSANT, INITIAL_KING_PASSANT, INITIAL_COLOR>>]
  ELSE IF Len(tokens) >= 8 /\ tokens[2] = "fen"
  THEN LET fields == [i \in 1..6 |-> chars(tokens[i + 2])]
       IN  IF load_fen_raises(fields) THEN [raises |-> TRUE, state |-> state]
           ELSE [raises |-> FALSE, state |-> load_fen(fields)]
  ELSE [raises |-> FALSE, state |-> state]

\* The end of the position command, moved being the outcome of the part on
\* the moves: king_passant = 0 unless that part reached `continue`.
position_after_moves(moved, state) ==
  IF moved.raises THEN [raises |-> TRUE, state |-> state]
  ELSE IF moved.continues THEN [raises |-> FALSE, state |-> moved.state]
  ELSE [raises |-> FALSE, state |-> [moved.state EXCEPT ![5] = 0]]

\* The position command from `if "moves" in tokens` on, set being the
\* outcome of the part before it.
position_after_set(set, tokens, state) ==
  IF set.raises THEN [raises |-> TRUE, state |-> state]
  ELSE IF ~in("moves", tokens)
  THEN [raises |-> FALSE, state |-> [set.state EXCEPT ![5] = 0]]
  ELSE position_after_moves(position_moves(tokens, set.state), state)

\* The position command: whether it raised, and the state it leaves.
position_command(tokens, state) == position_after_set(position_set(tokens, state), tokens, state)

\* The go command reads tokens[tokens.index(keyword) + 1]: IndexError when
\* the keyword is the last token.
argument_raises(keyword, tokens) ==
  in(keyword, tokens) /\ index_after(keyword, tokens) > Len(tokens)

\* Whether the keyword is there with an argument of digits.
has_number(keyword, tokens) ==
  /\ in(keyword, tokens)
  /\ index_after(keyword, tokens) <= Len(tokens)
  /\ isdigit(chars(tokens[index_after(keyword, tokens)]))

\* int(tokens[index]) for the keyword's argument
number_of(keyword, tokens) == int(chars(tokens[index_after(keyword, tokens)]))

clock_given(tokens) ==
  in("wtime", tokens) \/ in("btime", tokens) \/ in("winc", tokens) \/ in("binc", tokens)

go_raises(tokens) ==
  \/ argument_raises("movetime", tokens)
  \/ argument_raises("depth", tokens)
  \/ /\ clock_given(tokens)
     /\ \E keyword \in {"wtime", "btime", "winc", "binc"} : argument_raises(keyword, tokens)

\* Times are kept in units of 1/40000 s, in which every time the go command
\* computes is a whole number: a millisecond count n / 1000 is 40 * n.
seconds(n) == 40000 * n

milliseconds(n) == 40 * n

\* The local depth of the go command.
go_depth(tokens) == IF has_number("depth", tokens) THEN number_of("depth", tokens) ELSE 5

\* go_time_limit without the exchange of the two sides' values that the
\* command makes when black is to move.
go_time_limit_unswapped(tokens, color) ==
  LET white_time == IF has_number("wtime", tokens)
                    THEN milliseconds(number_of("wtime", tokens)) ELSE seconds(400)
      white_increment == IF has_number("winc", tokens)
                         THEN milliseconds(number_of("winc", tokens)) ELSE 0
  IN  IF clock_given(tokens)
      THEN (IF white_time <= seconds(60) THEN seconds(1)
            ELSE (white_time \div 40) + white_increment)
      ELSE IF has_number("movetime", tokens)
      THEN milliseconds(number_of("movetime", tokens))
      ELSE seconds(10)

\* The global time_limit as the go command leaves it.
go_time_limit(tokens, color) ==
  LET white_time == IF has_number("wtime", tokens)
                    THEN milliseconds(number_of("wtime", tokens)) ELSE seconds(400)
      black_time == IF has_number("btime", tokens)
                    THEN milliseconds(number_of("btime", tokens)) ELSE seconds(400)
      white_increment == IF has_number("winc", tokens)
                         THEN milliseconds(number_of("winc", tokens)) ELSE 0
      black_increment == IF has_number("binc", tokens)
                         THEN milliseconds(number_of("binc", tokens)) ELSE 0
      time == IF color = "b" THEN black_time ELSE white_time
      increment == IF color = "b" THEN black_increment ELSE white_increment
  IN  IF clock_given(tokens)
      THEN (IF time <= seconds(60) THEN seconds(1) ELSE (time \div 40) + increment)
      ELSE IF has_number("movetime", tokens)
      THEN milliseconds(number_of("movetime", tokens))
      ELSE seconds(10)

\* "invalid position": the test that makes the go command `continue`.
invalid_position(position, castling, opponent_castling, en_passant, king_passant, color) ==
  \/ len(position) # 120
  \/ Len(castling) # 2
  \/ Len(opponent_castling) # 2
  \/ ~(0 <= en_passant /\ en_passant <= 119)
  \/ ~(0 <= king_passant /\ king_passant <= 119)
  \/ color \notin {"w", "b"}

\* The line "static eval: ..." for the score evaluate_position returned and
\* the colour: score / 100, negated for black, is printed with its sign, and
\* the negation of 0.0 prints as -0.0.
eval_line(score, color) ==
  [kind |-> "static eval",
   sign |-> IF (color = "b" /\ score >= 0) \/ (color # "b" /\ score < 0) THEN "-" ELSE "+",
   hundredths |-> abs(score)]

(***************************************************************************)
(* The rules of chess that the properties speak of, stated on the board of *)
(* the mover: the mover's pieces are upper case and move NORTH, the        *)
(* opponent's are lower case and its pawns move SOUTH.                     *)
(***************************************************************************)
\* The elements of a sequence.
Range(sequence) == {sequence[i] : i \in 1..Len(sequence)}

\* The castling pairs of main with the writes of make_move in them, as they
\* are when the moves generated at the root are made on main's own lists.
pairs_after_go_sharing_lists(position, castling, opponent_castling, en_passant, king_passant) ==
  << << \A move \in Range(generate_moves(position, castling, en_passant)) :
          make_move(move, position, castling, opponent_castling, en_passant, king_passant)[2][1],
        \A move \in Range(generate_moves(position, castling, en_passant)) :
          make_move(move, position, castling, opponent_castling, en_passant, king_passant)[2][2] >>,
     << \A move \in Range(generate_moves(position, castling, en_passant)) :
          make_move(move, position, castling, opponent_castling, en_passant, king_passant)[3][1],
        \A move \in Range(generate_moves(position, castling, en_passant)) :
          make_move(move, position, castling, opponent_castling, en_passant, king_passant)[3][2] >> >>

\* The castling pairs that main holds when iteratively_deepen has returned:
\* the call is given castling[:] and opponent_castling[:], new lists, and
\* main assigns only best_move, so the writes of make_move do not reach the
\* lists of main.
pairs_after_go(position, castling, opponent_castling, en_passant, king_passant) ==
  <<castling, opponent_castling>>

\* The 64 cells of the board among the 120 of the position.
CELLS == {cell \in 21..98 : cell % 10 \in 1..8}

KNIGHT_STEPS == {-21, -19, -12, -8, 8, 12, 19, 21}

KING_STEPS == {-11, -10, -9, -1, 1, 9, 10, 11}

ROOK_STEPS == {-10, -1, 1, 10}

BISHOP_STEPS == {-11, -9, 9, 11}

\* A piece that slides by the steps goes from one cell to the other over
\* empty cells.
slides(position, from, to, steps) ==
  \E step \in steps : \E n \in 1..7 :
    /\ to = from + (n * step)
    /\ \A m \in 1..(n - 1) : position[from + (m * step)] = "."

\* The piece of the opponent on the cell from attacks the cell to.
attacks(position, from, to) ==
  CASE position[from] = "p" -> to \in {from + 9, from + 11}
    [] position[from] = "n" -> (to - from) \in KNIGHT_STEPS
    [] position[from] = "k" -> (to - from) \in KING_STEPS
    [] position[from] = "b" -> slides(position, from, to, BISHOP_STEPS)
    [] position[from] = "r" -> slides(position, from, to, ROOK_STEPS)
    [] position[from] = "q" -> slides(position, from, to, BISHOP_STEPS \cup ROOK_STEPS)
    [] OTHER -> FALSE

\* A piece of the opponent attacks the cell.
attacked(position, cell) == \E from \in CELLS : attacks(position, from, cell)

\* The mover's king is attacked.
mover_in_check(position) == \E cell \in CELLS : position[cell] = "K" /\ attacked(position, cell)

\* The move passes the self-check test of nega_max.
passes_self_check(move, position, castling, opponent_castling, en_passant, king_passant) ==
  ~king_in_check(make_and_rotate(move, position, castling, opponent_castling, en_passant,
                                 king_passant)[1],
                 castling,
                 make_and_rotate(move, position, castling, opponent_castling, en_passant,
                                 king_passant)[5])

\* The generated moves that pass the self-check test.
legal_moves(position, castling, opponent_castling, en_passant, king_passant) ==
  {move \in Range(generate_moves(position, castling, en_passant)) :
     passes_self_check(move, position, castling, opponent_castling, en_passant, king_passant)}

(***************************************************************************)
(* The book files main1.bin .. main7.bin as the process finds them: whether *)
(* the file is there, its length in bytes, and the records of 16 bytes it  *)
(* holds, each <<key, raw_move, weight, learn>>.                           *)
(***************************************************************************)
START_KEY ==
  zobrist_hash(INITIAL_POSITION, INITIAL_CASTLING, INITIAL_OPPONENT_CASTLING,
               INITIAL_EN_PASSANT, INITIAL_KING_PASSANT, INITIAL_COLOR)

\* The key of the state that a position command leaves.
key_of(state) == zobrist_hash(state[1], state[2], state[3], state[4], state[5], state[6])

key_after(tokens) == key_of(position_command(tokens, <<<<>>, <<>>, <<>>, 120, 120, "">>).state)

\* PolyGlot's encoding of a move between two cells given by file and row,
\* both from 0.
raw_move(from_file, from_row, to_file, to_row) ==
  (512 * from_row) + (64 * from_file) + (8 * to_row) + to_file

book_file(records) == [present |-> TRUE, bytes |-> 16 * Len(records), records |-> records]

EMPTY_FILE == book_file(<<>>)

ABSENT_FILE == [present |-> FALSE, bytes |-> 0, records |-> <<>>]

\* One record and eight bytes more.
TRUNCATED_FILE ==
  [present |-> TRUE, bytes |-> 24, records |-> <<<<START_KEY, raw_move(4, 1, 4, 3), 5, 0>>>>]

\* e2e4 and d2d4 for the start position
FILE_E4_D4 ==
  book_file(<<<<START_KEY, raw_move(4, 1, 4, 3), 10, 0>>, <<START_KEY, raw_move(3, 1, 3, 3), 4, 0>>>>)

\* e2e4 for the start position, and a move for each of the other positions
\* with all the pieces that the position commands of the pool set up: e7e5
\* for black in the two where black is to move, g1f3 after e2e4 e7e5.
FILE_OPENINGS ==
  book_file(<<<<START_KEY, raw_move(4, 1, 4, 3), 5, 0>>,
              <<key_after(<<"position", "startpos", "moves">>), raw_move(4, 6, 4, 4), 1, 0>>,
              <<key_after(<<"position", "startpos", "moves", "e2e4">>), raw_move(4, 6, 4, 4), 1, 0>>,
              <<key_after(<<"position", "startpos", "moves", "e2e4", "e7e5">>), raw_move(6, 0, 5, 2), 1, 0>>>>)

\* A record with the key of the start position whose move, e4e5, starts on
\* an empty cell.
FILE_STRAY == book_file(<<<<START_KEY, raw_move(4, 3, 4, 4), 1, 0>>>>)

\* The files as the process may find them: all there, one absent, one
\* truncated, one with a record whose move does not fit the position.
FILE_SETS ==
  { <<FILE_E4_D4, FILE_OPENINGS, EMPTY_FILE, EMPTY_FILE, EMPTY_FILE, EMPTY_FILE, EMPTY_FILE>>,
    <<FILE_STRAY, EMPTY_FILE, EMPTY_FILE, EMPTY_FILE, EMPTY_FILE, EMPTY_FILE, EMPTY_FILE>>,
    <<FILE_E4_D4, EMPTY_FILE, ABSENT_FILE, EMPTY_FILE, EMPTY_FILE, EMPTY_FILE, EMPTY_FILE>>,
    <<FILE_E4_D4, TRUNCATED_FILE, EMPTY_FILE, EMPTY_FILE, EMPTY_FILE, EMPTY_FILE, EMPTY_FILE>> }

(***************************************************************************)
(* Bounds                                                                  *)
(***************************************************************************)
\* Lines read by one run of the process.
MaxCommands == 3

\* go commands that reach iteratively_deepen in one run.
MaxSearches == 1

\* The time limit of a search is found exceeded at one of its first
\* MaxTicks readings of the clock, or at none of them.
MaxTicks == 12

\* The deadlines tried are those TickStep readings apart.
TickStep == 4

Deadlines == {deadline \in 0..MaxTicks : deadline % TickStep = 0}

(***************************************************************************)
(* The process                                                             *)
(***************************************************************************)
VARIABLES
  position, castling, opponent_castling, en_passant, king_passant, color,  \* locals of main
  initialized,                                                             \* local of main
  OPENING_BOOKS, TRANSPOSITION_TABLE, max_depth, nodes, timeout, time_limit, \* globals
  files,      \* the book files on disk
  pc,         \* "running", "crashed" (uncaught exception) or "exited"
  command,    \* the tokens of the last line read
  out,        \* the lines written to stdout while handling that line
  search,     \* the last go command that searched: its locals and its clock
  commands,   \* lines read so far
  searches,   \* searches so far: go commands that reached iteratively_deepen, calls of nega_max
  returned,   \* the last call of nega_max taken by itself: its arguments and what it returned
  played      \* the moves made on the position since it was set, as <<start, end>> in white's view

main_locals == <<position, castling, opponent_castling, en_passant, king_passant, color>>

globals == <<OPENING_BOOKS, TRANSPOSITION_TABLE, max_depth, nodes, timeout, time_limit>>

vars == <<position, castling, opponent_castling, en_passant, king_passant, color, initialized,
          OPENING_BOOKS, TRANSPOSITION_TABLE, max_depth, nodes, timeout, time_limit,
          files, pc, command, out, search, commands, searches, returned, played>>

NOT_CALLED == [called |-> FALSE]

NO_SEARCH ==
  [depth |-> 0, deadline |-> 0, clock |-> 0, weighted_entry |-> NULL_MOVE,
   best_move |-> NULL_MOVE, iterations |-> <<>>]

\* The state after the assignments at the top of main; the globals that
\* isready sets do not exist before it and are given the values it sets.
Init ==
  /\ position = <<>>
  /\ castling = <<>>
  /\ opponent_castling = <<>>
  /\ en_passant = 120
  /\ king_passant = 120
  /\ color = ""
  /\ initialized = FALSE
  /\ OPENING_BOOKS = <<>>
  /\ TRANSPOSITION_TABLE = <<>>
  /\ max_depth = 0
  /\ nodes = 0
  /\ timeout = FALSE
  /\ time_limit = 0
  /\ files \in FILE_SETS
  /\ pc = "running"
  /\ command = <<>>
  /\ out = <<>>
  /\ search = NO_SEARCH
  /\ commands = 0
  /\ searches = 0
  /\ returned = NOT_CALLED
  /\ played = <<>>

\* sys.stdin.readline() returns the line tokens.
Read(tokens) ==
  /\ pc = "running"
  /\ commands < MaxCommands
  /\ command' = tokens
  /\ commands' = commands + 1
  /\ UNCHANGED <<files, returned, played>>

\* An uncaught exception ends the process; the state is kept as the
\* handler found it.
Raise ==
  /\ pc' = "crashed"
  /\ out' = <<>>
  /\ UNCHANGED <<main_locals, initialized, globals, search, searches>>

\* if len(tokens) == 0: continue
Empty(tokens) ==
  /\ Read(tokens)
  /\ Len(tokens) = 0
  /\ out' = <<>>
  /\ UNCHANGED <<main_locals, initialized, globals, pc, search, searches>>

Uci(tokens) ==
  /\ Read(tokens)
  /\ Len(tokens) > 0 /\ tokens[1] = "uci"
  /\ out' = <<[kind |-> "id name"], [kind |-> "id author"], [kind |-> "uciok"]>>
  /\ UNCHANGED <<main_locals, initialized, globals, pc, search, searches>>

Quit(tokens) ==
  /\ Read(tokens)
  /\ Len(tokens) > 0 /\ tokens[1] = "quit"
  /\ pc' = "exited"
  /\ out' = <<>>
  /\ UNCHANGED <<main_locals, initialized, globals, search, searches>>

IsReady(tokens) ==
  /\ Read(tokens)
  /\ Len(tokens) > 0 /\ tokens[1] = "isready"
  /\ IF initialized
     THEN /\ out' = <<[kind |-> "readyok"]>>
          /\ UNCHANGED <<initialized, globals, pc>>
     ELSE IF \E num \in 1..7 : load_book_raises(files[num])
     THEN /\ initialized' = TRUE
          /\ pc' = "crashed"
          /\ out' = <<>>
          /\ UNCHANGED globals
     ELSE /\ initialized' = TRUE
          /\ OPENING_BOOKS' = [num \in 1..7 |-> load_book(files[num])]
          /\ max_depth' = 0
          /\ nodes' = 0
          /\ time_limit' = 0
          /\ timeout' = FALSE
          /\ out' = <<[kind |-> "readyok"]>>
          /\ UNCHANGED <<TRANSPOSITION_TABLE, pc>>
  /\ UNCHANGED <<main_locals, search, searches>>

\* elif not initialized: continue
Ignored(tokens) ==
  /\ Read(tokens)
  /\ Len(tokens) > 0 /\ tokens[1] \notin {"uci", "quit", "isready"}
  /\ ~initialized
  /\ out' = <<>>
  /\ UNCHANGED <<main_locals, initialized, globals, pc, search, searches>>

Position(tokens) ==
  /\ Read(tokens)
  /\ Len(tokens) > 0 /\ tokens[1] = "position"
  /\ initialized
  /\ \E done \in {position_command(tokens, <<position, castling, opponent_castling, en_passant,
                                              king_passant, color>>)} :
         IF done.raises THEN Raise
         ELSE /\ position' = done.state[1]
              /\ castling' = done.state[2]
              /\ opponent_castling' = done.state[3]
              /\ en_passant' = done.state[4]
              /\ king_passant' = done.state[5]
              /\ color' = done.state[6]
              /\ out' = <<>>
              /\ UNCHANGED <<initialized, globals, pc, search, searches>>

\* The go command past its tests, for the book move that book_entries
\* draws and the deadline of the search.
Searched(tokens, weighted_entry, deadline) ==
  \E depth \in {go_depth(tokens)} :
  \E found \in {iteratively_deepen(depth, position, castling, opponent_castling, en_passant,
                                   king_passant, color, weighted_entry,
                                   [table |-> TRANSPOSITION_TABLE, nodes |-> nodes,
                                    timeout |-> timeout, max_depth |-> max_depth,
                                    clock |-> 0, deadline |-> deadline])} :
      /\ time_limit' = go_time_limit(tokens, color)
      /\ TRANSPOSITION_TABLE' = found.g.table
      /\ max_depth' = found.g.max_depth
      /\ nodes' = found.g.nodes
      /\ timeout' = found.g.timeout
      /\ out' = Append(found.lines,
                       [kind |-> "bestmove", move |-> algebraic_notation(found.best_move, color)])
      /\ search' = [depth |-> depth, deadline |-> deadline, clock |-> found.g.clock,
                    weighted_entry |-> weighted_entry, best_move |-> found.best_move,
                    iterations |-> found.iterations]
      /\ searches' = searches + 1
      /\ castling' = pairs_after_go(position, castling, opponent_castling, en_passant,
                                    king_passant)[1]
      /\ opponent_castling' = pairs_after_go(position, castling, opponent_castling, en_passant,
                                             king_passant)[2]
      /\ UNCHANGED <<position, en_passant, king_passant, color, initialized, OPENING_BOOKS, pc>>

Go(tokens) ==
  /\ Read(tokens)
  /\ Len(tokens) > 0 /\ tokens[1] = "go"
  /\ initialized
  /\ searches < MaxSearches
  /\ IF invalid_position(position, castling, opponent_castling, en_passant, king_passant, color)
     THEN /\ out' = <<>>
          /\ UNCHANGED <<main_locals, initialized, globals, pc, search, searches>>
     ELSE IF go_raises(tokens) THEN Raise
     ELSE IF book_entries_raises(OPENING_BOOKS, position, castling, opponent_castling,
                                 en_passant, king_passant, color) THEN Raise
     ELSE \E weighted_entry \in weighted_entries(OPENING_BOOKS, position, castling,
                                                 opponent_castling, en_passant, king_passant,
                                                 color) :
            \E deadline \in Deadlines : Searched(tokens, weighted_entry, deadline)

\* evaluate_position of the empty position is 0.
Eval(tokens) ==
  /\ Read(tokens)
  /\ Len(tokens) > 0 /\ tokens[1] = "eval"
  /\ initialized
  /\ out' = <<eval_line(IF len(position) = 0 THEN 0 ELSE evaluate_position(position), color)>>
  /\ UNCHANGED <<main_locals, initialized, globals, pc, search, searches>>

\* display_board raises on the empty position.
Board(tokens) ==
  /\ Read(tokens)
  /\ Len(tokens) > 0 /\ tokens[1] = "board"
  /\ initialized
  /\ IF len(position) = 0 THEN Raise
     ELSE /\ out' = display_board(position, castling, opponent_castling, en_passant,
                                  king_passant, color, Len(tokens) >= 2 /\ tokens[2] = "unicode")
                    \o <<[kind |-> "FEN",
                          fen |-> generate_fen(position, castling, opponent_castling, en_passant,
                                               king_passant, color)],
                         [kind |-> "HASH",
                          hash |-> zobrist_hash(position, castling, opponent_castling,
                                                en_passant, king_passant, color)]>>
          /\ UNCHANGED <<main_locals, initialized, globals, pc, search, searches>>

\* rotate_position raises on the empty position.
Flip(tokens) ==
  /\ Read(tokens)
  /\ Len(tokens) > 0 /\ tokens[1] = "flip"
  /\ initialized
  /\ IF len(position) = 0 THEN Raise
     ELSE LET rotated == rotate_position(position, castling, opponent_castling, en_passant,
                                         king_passant)
          IN  /\ position' = rotated[1]
              /\ castling' = rotated[2]
              /\ opponent_castling' = rotated[3]
              /\ en_passant' = rotated[4]
              /\ king_passant' = rotated[5]
              /\ color' = IF color = "w" THEN "b" ELSE IF color = "b" THEN "w" ELSE color
              /\ out' = <<>>
              /\ UNCHANGED <<initialized, globals, pc, search, searches>>

\* No branch of the loop matches the first token.
Unknown(tokens) ==
  /\ Read(tokens)
  /\ Len(tokens) > 0
  /\ tokens[1] \notin {"uci", "quit", "isready", "position", "go", "eval", "board", "flip"}
  /\ initialized
  /\ out' = <<>>
  /\ UNCHANGED <<main_locals, initialized, globals, pc, search, searches>>

Next ==
  \/ \E tokens \in LINES : Empty(tokens)
  \/ \E tokens \in LINES : Uci(tokens)
  \/ \E tokens \in LINES : Quit(tokens)
  \/ \E tokens \in LINES : IsReady(tokens)
  \/ \E tokens \in LINES : Ignored(tokens)
  \/ \E tokens \in LINES : Position(tokens)
  \/ \E tokens \in LINES : Go(tokens)
  \/ \E tokens \in LINES : Eval(tokens)
  \/ \E tokens \in LINES : Board(tokens)
  \/ \E tokens \in LINES : Flip(tokens)
  \/ \E tokens \in LINES : Unknown(tokens)

Spec == Init /\ [][Next]_vars

(***************************************************************************)
(* Properties of the process (specification Spec)                          *)
(***************************************************************************)
\* The last line read was a go command that the process answered: it was
\* initialized and held a valid position.
go_read ==
  /\ Len(command) > 0 /\ command[1] = "go"
  /\ initialized
  /\ ~invalid_position(position, castling, opponent_castling, en_passant, king_passant, color)

\* The last line read was a go command that reached iteratively_deepen.
go_searched == go_read /\ pc = "running" /\ Len(out) > 0

\* C1: once the process is initialized and holds a valid position, every go
\* command produces exactly one bestmove line, written after all the info
\* lines of its search, before the next line is read (the process is still
\* running then).
C1_one_bestmove ==
  go_read =>
    /\ pc = "running"
    /\ Len(out) >= 1
    /\ out[Len(out)].kind = "bestmove"
    /\ \A i \in 1..(Len(out) - 1) : out[i].kind \in {"info", "info string"}

RECURSIVE moves_applied(_, _, _, _)
\* The state <<position, castling, opponent_castling, en_passant,
\* king_passant>> and colour after the moves from the k-th on are made in
\* order by alternating sides, each by the side to move in its own view of
\* the board, the board then being turned to the other side.
moves_applied(moves, state, side, k) ==
  IF k > Len(moves) THEN <<state, side>>
  ELSE LET start_square == parse_coordinates(SubSeq(chars(moves[k]), 1, 2))
           end_square == parse_coordinates(SubSeq(chars(moves[k]), 3, 4))
           move == <<IF side = "b" THEN 119 - start_square ELSE start_square,
                     IF side = "b" THEN 119 - end_square ELSE end_square,
                     ".", promotion_of(chars(moves[k]))>>
       IN  moves_applied(moves,
                         make_and_rotate(move, state[1], state[2], state[3], state[4], state[5]),
                         other_color(side), k + 1)

\* The position commands of the form "position startpos moves m1 .. mn" or
\* "position fen <fen> moves m1 .. mn", n >= 0, every mi a move of four or
\* five characters.
with_moves(tokens) ==
  /\ tokens \in POSITION_LINES
  /\ in("moves", tokens)
  /\ index_after("moves", tokens) \in {4, 10}
  /\ \A k \in index_after("moves", tokens)..Len(tokens) : Len(chars(tokens[k])) \in {4, 5}

\* The state of the process is the expected one, <<state, side>> as
\* moves_applied returns it, and the side to move is the starting side for an
\* even number of moves and the other side for an odd one.
moves_hold(expected, start_color) ==
  /\ position = expected[1][1]
  /\ castling = expected[1][2]
  /\ opponent_castling = expected[1][3]
  /\ en_passant = expected[1][4]
  /\ color = expected[2]
  /\ color = IF Len(moves_after(command)) % 2 = 0 THEN start_color ELSE other_color(start_color)

\* The same for the starting state that the command names.
moves_hold_from(start) ==
  moves_hold(moves_applied(moves_after(command), SubSeq(start, 1, 5), start[6], 1), start[6])

\* C2: after "position startpos moves m1 .. mn" (and the fen form), n >= 0,
\* the state is the starting state with m1 .. mn applied in order by
\* alternating sides, seen from the side to move, and the side to move is
\* the starting side for even n and the other side for odd n.
C2_moves_applied ==
  (initialized /\ pc = "running" /\ with_moves(command)) =>
    moves_hold_from(position_set(command, <<position, castling, opponent_castling, en_passant,
                                            king_passant, color>>).state)
\* Whether the keyword is given in the go command with a number.
given(keyword) == has_number(keyword, command)

\* The number given with the keyword, a count of milliseconds, in the units
\* of time_limit.
given_time(keyword) == milliseconds(number_of(keyword, command))

\* The mover's keyword: the white one when white is to move, the black one
\* when black is.
mine(white_keyword, black_keyword) == IF color = "w" THEN white_keyword ELSE black_keyword

MALFORMED_LINES ==
  { <<"stop">>,
    <<"go", "depth">>,
    <<"go", "movetime">>,
    <<"go", "wtime", "btime">>,
    <<"go", "depth", "x">>,
    <<"position", "startpos", "moves", "e2">> }

\* C4: a malformed command is silently ignored: it produces no output and
\* the loop goes on to read the next command.
C4_ignored ==
  command \in MALFORMED_LINES => (out = <<>> /\ pc = "running")

\* C5: on the first isready the process skips the book files that are
\* absent or truncated, loads the others, replies readyok and goes on.
C5_books_skipped ==
  (command = <<"isready">> /\ commands = 1) =>
    /\ pc = "running"
    /\ out = <<[kind |-> "readyok"]>>
    /\ OPENING_BOOKS = [num \in 1..7 |->
                          IF files[num].present /\ files[num].bytes % 16 = 0
                          THEN files[num].records ELSE <<>>]

\* The iteration of the last search that timed out, 0 if none did.
timed_out_iteration ==
  IF search.iterations # <<>> /\ search.iterations[Len(search.iterations)].timeout
  THEN Len(search.iterations) ELSE 0

\* C6: when the time limit is exceeded during iteration d, the search
\* stops there, nothing of iteration d is reported, the timeout flag is
\* reset, and the move returned is the best move of iteration d - 1, the
\* last one completed (none, the null move, when d = 1).
C6_previous_iteration ==
  (go_searched /\ timed_out_iteration > 0) =>
    LET d == timed_out_iteration
    IN  /\ search.iterations[d].max_depth = d
        /\ \A i \in 1..(d - 1) : ~search.iterations[i].timeout
        /\ timeout = FALSE
        /\ search.best_move = IF d = 1 THEN NULL_MOVE ELSE search.iterations[d - 1].best_move
        /\ Len(out) = d
        /\ \A i \in 1..(d - 1) : out[i].kind = "info" /\ out[i].depth = i
        /\ out[d] = [kind |-> "bestmove", move |-> algebraic_notation(search.best_move, color)]

\* A search that timed out in its third iteration and returned the move of
\* the second.
C6_witness ==
  /\ go_searched
  /\ timed_out_iteration = 3
  /\ search.best_move # NULL_MOVE
  /\ search.best_move = search.iterations[2].best_move

(***************************************************************************)
(* The search taken by itself (specification SpecSearch)                   *)
(*                                                                         *)
(* The process has answered isready, with no entry in its books, and holds *)
(* the position that a position command of SEARCH_LINES has set.  Then     *)
(* comes a go command, or one call of nega_max on the position held, as    *)
(* iteratively_deepen makes it (depth = max_depth) or as nega_max makes it *)
(* on the position it has reached max_depth - depth plies below the root.  *)
(***************************************************************************)
\* The depths of the calls.
MaxCallDepth == 2

\* The values of max_depth of the calls.
MaxTop == 3

\* A deadline that no call of these depths on these positions reaches.
NoDeadline == 1000

\* The deadlines of the calls: passed at entry, passed at the reading
\* TickStep readings later, never passed.
CALL_DEADLINES == {0, TickStep, NoDeadline}

\* The windows <<alpha, beta>> of the calls: the full window of the root and
\* a narrow one.
WINDOWS == {<<-CHECKMATE_UPPER, CHECKMATE_UPPER>>, <<-50, 50>>}

\* The go commands of this specification: with and without a depth.
SEARCH_GO_LINES ==
  {<<"go">>, <<"go", "depth", "0">>, <<"go", "depth", "2">>, <<"go", "movetime", "2000">>}

\* Three of SEARCH_LINES: the stalemate with the blocked pawn, the king in
\* the corner, the mate in one.
BLOCKED_PAWN == <<"position", "fen", "8/4k3/4P3/3p4/8/1q6/8/K7", "w", "-", "-", "0", "1">>

CORNERED_KING == <<"position", "fen", "k7/8/1K6/8/8/8/8/8", "w", "-", "-", "0", "1">>

MATE_IN_ONE == <<"position", "fen", "8/8/8/8/8/1K6/2R5/k7", "w", "-", "-", "0", "1">>

\* No search before the position command.
NOT_SEARCHED == <<<<>>, 0>>

\* What the process may have searched before the position command, as
\* <<position command, depth of the go command>>: nothing, the board of the
\* blocked pawn with another en passant field, the cornered king to depth 1,
\* the mate in one to depth 2.
searched_before(tokens) ==
  UNION {{NOT_SEARCHED},
         IF tokens = BLOCKED_PAWN THEN {<<line, 1>> : line \in SEARCHED_LINES} ELSE {},
         IF tokens = CORNERED_KING THEN {<<tokens, 1>>} ELSE {},
         IF tokens = MATE_IN_ONE THEN {<<tokens, 2>>} ELSE {}}

\* The table that go depth before[2] leaves after the position command
\* before[1], the table being empty until then.
table_left(before) ==
  IF before = NOT_SEARCHED THEN <<>>
  ELSE LET state == position_command(before[1], <<<<>>, <<>>, <<>>, 120, 120, "">>).state
       IN  iteratively_deepen(before[2], state[1], state[2], state[3], state[4], state[5],
                              state[6], NULL_MOVE,
                              [table |-> <<>>, nodes |-> 0, timeout |-> FALSE, max_depth |-> 0,
                               clock |-> 0, deadline |-> NoDeadline]).g.table

InitSearch ==
  \E tokens \in SEARCH_LINES : \E before \in searched_before(tokens) :
    \E done \in {position_command(tokens, <<<<>>, <<>>, <<>>, 120, 120, "">>)} :
      /\ position = done.state[1]
      /\ castling = done.state[2]
      /\ opponent_castling = done.state[3]
      /\ en_passant = done.state[4]
      /\ king_passant = done.state[5]
      /\ color = done.state[6]
      /\ initialized = TRUE
      /\ files = [num \in 1..7 |-> EMPTY_FILE]
      /\ OPENING_BOOKS = [num \in 1..7 |-> load_book(EMPTY_FILE)]
      /\ TRANSPOSITION_TABLE = table_left(before)
      /\ max_depth = 0
      /\ nodes = 0
      /\ timeout = FALSE
      /\ time_limit = 0
      /\ pc = "running"
      /\ command = tokens
      /\ out = <<>>
      /\ search = NO_SEARCH
      /\ commands = IF before = NOT_SEARCHED THEN 2 ELSE 4
      /\ searches = IF before = NOT_SEARCHED THEN 0 ELSE 1
      /\ returned = NOT_CALLED
      /\ played = <<>>

\* The depths of the calls: 1..MaxCallDepth, and one more than the depth of
\* the entry that the table holds for the position.
call_depths ==
  ((1..MaxCallDepth)
     \cup {probe(TRANSPOSITION_TABLE,
                 zobrist_hash(position, castling, opponent_castling, en_passant, king_passant,
                              color))[2] + 1}) \ {0}

\* nega_max(depth, alpha, beta, position, ..., color) with the global
\* max_depth at top, the clock passing the time limit at the deadline.
\* The search calls nega_max only while timeout is False.  One search is
\* followed in a behaviour: a go command or a call.
Call(depth, top, alpha, beta, deadline) ==
  /\ pc = "running"
  /\ initialized
  /\ ~timeout
  /\ ~invalid_position(position, castling, opponent_castling, en_passant, king_passant, color)
  /\ search = NO_SEARCH
  /\ ~returned.called
  /\ \E result \in {nega_max(depth, alpha, beta, position, castling, opponent_castling,
                             en_passant, king_passant, color,
                             [table |-> TRANSPOSITION_TABLE, nodes |-> nodes,
                              timeout |-> timeout, max_depth |-> top,
                              clock |-> 0, deadline |-> deadline])} :
       /\ returned' = [called |-> TRUE, depth |-> depth, max_depth |-> top, alpha |-> alpha,
                       beta |-> beta, deadline |-> deadline, position |-> position,
                       castling |-> castling, opponent_castling |-> opponent_castling,
                       en_passant |-> en_passant, king_passant |-> king_passant,
                       color |-> color, table |-> TRANSPOSITION_TABLE, nodes |-> nodes,
                       score |-> result[1], best_move |-> result[2],
                       timeout |-> result[3].timeout, clock |-> result[3].clock]
       /\ TRANSPOSITION_TABLE' = result[3].table
       /\ nodes' = result[3].nodes
       /\ timeout' = result[3].timeout
       /\ max_depth' = top
  /\ searches' = searches + 1
  /\ UNCHANGED <<main_locals, initialized, OPENING_BOOKS, time_limit, files, pc, command, out,
                 search, commands, played>>

NextSearch ==
  \/ \E tokens \in SEARCH_GO_LINES : Go(tokens)
  \/ \E depth \in call_depths : \E top \in depth..(IF depth > MaxTop THEN depth ELSE MaxTop) :
       \E window \in WINDOWS : \E deadline \in CALL_DEADLINES :
         Call(depth, top, window[1], window[2], deadline)

SpecSearch == InitSearch /\ [][NextSearch]_vars
(***************************************************************************)
(* Properties of the search (specification SpecSearch)                     *)
(***************************************************************************)
\* nega_max was called on a position where no generated move passes the
\* self-check test.
called_without_move ==
  /\ returned.called
  /\ returned.depth >= 1
  /\ legal_moves(returned.position, returned.castling, returned.opponent_castling,
                 returned.en_passant, returned.king_passant) = {}

\* What C7 says nega_max returns then.
returned_no_move ==
  /\ returned.best_move = NULL_MOVE
  /\ returned.score = IF mover_in_check(returned.position)
                      THEN -(CHECKMATE_LOWER - (returned.max_depth - returned.depth))
                      ELSE 0

\* A go command searched a root position where no generated move passes
\* the self-check test.
searched_without_move ==
  /\ go_searched
  /\ legal_moves(position, castling, opponent_castling, en_passant, king_passant) = {}

printed_none == out[Len(out)] = [kind |-> "bestmove", move |-> NONE]

\* C7: when nega_max is called with depth >= 1 on a position in which no
\* generated move passes the self-check test, it returns the null move with
\* score -(CHECKMATE_LOWER - (max_depth - depth)) if the mover's king is
\* attacked and 0 otherwise, and a go on such a root position prints
\* bestmove (none).  The call is one that finds the time limit not passed
\* when it reads the clock at entry.
C7_no_legal_move ==
  /\ (called_without_move /\ returned.deadline > 0) => returned_no_move
  /\ searched_without_move => printed_none
(***************************************************************************)
(* The moves taken by themselves (specification SpecPlay)                  *)
(*                                                                         *)
(* The process has answered isready and holds the position that a position *)
(* command of PLAY_LINES has set.  A step makes a move as nega_max makes   *)
(* it in its loop: a generated move, make_move, rotate_position, and the   *)
(* move dropped when king_in_check finds the position illegal; or it is a  *)
(* flip command.                                                           *)
(***************************************************************************)
\* Moves made from the position set.
MaxPlies == 4

\* The cell of a file (1 for a .. 8 for h) and a rank, in white's view.
square(file, rank) == (10 * (10 - rank)) + file

\* The moves tried, as <<start, end>> in white's view: e2e4 a2a3 a3a4 e4e5
\* g1f3 e1g1 e1c1 e1e2 d2e3 h7g8 for white, a7a6 d7d5 h7h5 h8h6 g8f6 e8g8
\* e8c8 e8e7 for black.
PLAY_MOVES ==
  { <<square(5, 2), square(5, 4)>>, <<square(1, 2), square(1, 3)>>,
    <<square(1, 3), square(1, 4)>>, <<square(5, 4), square(5, 5)>>,
    <<square(7, 1), square(6, 3)>>, <<square(5, 1), square(7, 1)>>,
    <<square(5, 1), square(3, 1)>>, <<square(5, 1), square(5, 2)>>,
    <<square(4, 2), square(5, 3)>>, <<square(8, 7), square(7, 8)>>,
    <<square(1, 7), square(1, 6)>>, <<square(4, 7), square(4, 5)>>,
    <<square(8, 7), square(8, 5)>>, <<square(8, 8), square(8, 6)>>,
    <<square(7, 8), square(6, 6)>>, <<square(5, 8), square(7, 8)>>,
    <<square(5, 8), square(3, 8)>>, <<square(5, 8), square(5, 7)>>}

\* A cell of the mover's board in white's view.
in_white_view(cell, mover) == IF mover = "b" THEN 119 - cell ELSE cell

InitPlay ==
  \E tokens \in PLAY_LINES :
    \E done \in {position_command(tokens, <<<<>>, <<>>, <<>>, 120, 120, "">>)} :
      /\ position = done.state[1]
      /\ castling = done.state[2]
      /\ opponent_castling = done.state[3]
      /\ en_passant = done.state[4]
      /\ king_passant = done.state[5]
      /\ color = done.state[6]
      /\ initialized = TRUE
      /\ files = [num \in 1..7 |-> EMPTY_FILE]
      /\ OPENING_BOOKS = [num \in 1..7 |-> load_book(EMPTY_FILE)]
      /\ TRANSPOSITION_TABLE = <<>>
      /\ max_depth = 0
      /\ nodes = 0
      /\ timeout = FALSE
      /\ time_limit = 0
      /\ pc = "running"
      /\ command = tokens
      /\ out = <<>>
      /\ search = NO_SEARCH
      /\ commands = 0
      /\ searches = 0
      /\ returned = NOT_CALLED
      /\ played = <<>>

\* One pass of the loop of nega_max over a move that it goes on to search.
Play(move) ==
  /\ pc = "running"
  /\ Len(played) < MaxPlies
  /\ <<in_white_view(move[1], color), in_white_view(move[2], color)>> \in PLAY_MOVES
  /\ \E new_position \in {make_and_rotate(move, position, castling, opponent_castling,
                                           en_passant, king_passant)} :
       /\ ~king_in_check(new_position[1], castling, new_position[5])
       /\ position' = new_position[1]
       /\ castling' = new_position[2]
       /\ opponent_castling' = new_position[3]
       /\ en_passant' = new_position[4]
       /\ king_passant' = new_position[5]
  /\ color' = other_color(color)
  /\ played' = Append(played, <<in_white_view(move[1], color), in_white_view(move[2], color)>>)
  /\ UNCHANGED <<initialized, globals, files, pc, command, out, search, commands, searches,
                 returned>>

NextPlay ==
  \/ \E move \in Range(generate_moves(position, castling, en_passant)) : Play(move)
  \/ Flip(<<"flip">>)

SpecPlay == InitPlay /\ [][NextPlay]_vars
(***************************************************************************)
(* Properties of the moves (specification SpecPlay)                        *)
(***************************************************************************)
\* The last move made, as <<start, end>> on the board of the side now to
\* move.
last_played ==
  <<in_white_view(played[Len(played)][1], color), in_white_view(played[Len(played)][2], color)>>

\* The opponent's last move was a double pawn push: the move just made, by
\* a pawn of the opponent, two cells SOUTH on the mover's board.
double_pushed ==
  /\ commands = 0
  /\ played # <<>>
  /\ position[last_played[2]] = "p"
  /\ last_played[2] - last_played[1] = SOUTH + SOUTH

\* The cell that the pushed pawn skipped.
skipped_cell == last_played[1] + SOUTH

\* The cells beside the pushed pawn where a pawn of the mover stands.
pawns_beside ==
  {cell \in {last_played[2] + WEST, last_played[2] + EAST} : position[cell] = "P"}

\* The generated moves of a pawn diagonally onto an empty cell.
empty_diagonals ==
  {move \in Range(generate_moves(position, castling, en_passant)) :
     /\ position[move[1]] = "P"
     /\ (move[2] - move[1]) \in {NORTH + WEST, NORTH + EAST}
     /\ position[move[2]] = "."}

\* C8: if the opponent's last move was a double pawn push and the mover has
\* a pawn beside the pushed pawn, generate_moves contains that pawn's
\* diagonal move onto the skipped cell and make_move of it removes the
\* pushed pawn; generate_moves emits no other pawn diagonal move onto an
\* empty cell.
C8_en_passant ==
  pc = "running" =>
    /\ double_pushed =>
         \A cell \in pawns_beside :
           /\ <<cell, skipped_cell, ".", "">> \in Range(generate_moves(position, castling, en_passant))
           /\ make_move(<<cell, skipped_cell, ".", "">>, position, castling, opponent_castling,
                        en_passant, king_passant)[1][last_played[2]] = "."
    /\ \A move \in empty_diagonals :
         double_pushed /\ move[2] = skipped_cell /\ move[1] \in pawns_beside

\* The generated moves that castle and that the self-check test accepts.
castling_moves ==
  {move \in legal_moves(position, castling, opponent_castling, en_passant, king_passant) :
     position[move[1]] = "K" /\ (move[2] - move[1]) \in {WEST + WEST, EAST + EAST}}

\* The corner of the mover's board on the side to which the move castles.
castling_corner(move) == IF move[2] < move[1] THEN A1 ELSE H1

\* The right that make_move clears when the piece on that corner moves.
castling_right(move) == IF move[2] < move[1] THEN castling[1] ELSE castling[2]

\* The cell of the mover's king before it has moved, on the mover's board.
king_home == in_white_view(square(5, IF color = "b" THEN 8 ELSE 1), color)

\* C9: a castling move is generated and then accepted by king_in_check only
\* when the relevant castling right is set, a rook and the king stand on
\* their home cells, every cell between them is empty, and none of the
\* king's start cell, the cell it passes through and its destination cell
\* is attacked by a piece of the opponent, pawns included.
C9_castling ==
  pc = "running" =>
    \A move \in castling_moves :
      /\ castling_right(move)
      /\ position[castling_corner(move)] = "R"
      /\ move[1] = king_home
      /\ \A cell \in CELLS :
           ((castling_corner(move) < cell /\ cell < move[1])
              \/ (move[1] < cell /\ cell < castling_corner(move))) => position[cell] = "."
      /\ ~attacked(position, move[1])
      /\ ~attacked(position, (move[1] + move[2]) \div 2)
      /\ ~attacked(position, move[2])
(***************************************************************************)
(* The PolyGlot key of the game played (specification SpecPlay)            *)
(***************************************************************************)
\* The game started from the start position and only moves were played.
game_from_start == pc = "running" /\ commands = 0 /\ command = <<"position", "startpos">>

\* The board of the game: the piece on a cell of white's view, white's
\* pieces in upper case.
board_piece(cell) == IF color = "b" THEN swapcase(position[119 - cell]) ELSE position[cell]

\* The kinds of the PolyGlot format: black pawn 0, white pawn 1, ... white
\* king 11.
POLYGLOT_KINDS == <<"p", "P", "n", "N", "b", "B", "r", "R", "q", "Q", "k", "K">>

polyglot_pieces ==
  {(64 * (kind - 1)) + (8 * (rank - 1)) + (file - 1) :
     <<kind, file, rank>> \in {triple \in (1..12) \X (1..8) \X (1..8) :
                                 board_piece(square(triple[2], triple[3])) = POLYGLOT_KINDS[triple[1]]}}

\* A right is held while neither the king nor the rook has left its cell
\* and the rook has not been captured on it.
right_held(king, rook) ==
  \A ply \in 1..Len(played) : played[ply][1] \notin {king, rook} /\ played[ply][2] # rook

polyglot_castling ==
  UNION {IF right_held(square(5, 1), square(8, 1)) THEN {768} ELSE {},
         IF right_held(square(5, 1), square(1, 1)) THEN {769} ELSE {},
         IF right_held(square(5, 8), square(8, 8)) THEN {770} ELSE {},
         IF right_held(square(5, 8), square(1, 8)) THEN {771} ELSE {}}

\* The pawn that double-pushed on the preceding ply can be captured by a
\* pawn of the side to move that stands beside it.
capturable_push ==
  /\ played # <<>>
  /\ board_piece(played[Len(played)][2]) \in {"p", "P"}
  /\ (played[Len(played)][2] - played[Len(played)][1]) \in {NORTH + NORTH, SOUTH + SOUTH}
  /\ \E side \in {WEST, EAST} :
       board_piece(played[Len(played)][2] + side) = (IF color = "b" THEN "p" ELSE "P")

polyglot_en_passant == IF capturable_push THEN {772 + (played[Len(played)][2] % 10) - 1} ELSE {}

polyglot_turn == IF color = "w" THEN {780} ELSE {}

polyglot_key == polyglot_pieces \cup polyglot_castling \cup polyglot_en_passant \cup polyglot_turn

\* C10: in every state reached from the start position by make_move and
\* rotate_position, zobrist_hash is the PolyGlot key of the chess position:
\* the entries of the pieces, one entry for each of the rights K, Q, k, q
\* held, the entry of the en-passant file iff the side to move has a pawn
\* beside the pawn that double-pushed on the preceding ply, entry 780 iff
\* white is to move.
C10_polyglot_hash ==
  game_from_start =>
    zobrist_hash(position, castling, opponent_castling, en_passant, king_passant, color) = polyglot_key

(***************************************************************************)
(* Rotation and the flip command (specification SpecPlay)                  *)
(***************************************************************************)
\* The branch of main for flip, on the locals <<position, ..., color>>.
flipped(state) ==
  Append(rotate_position(state[1], state[2], state[3], state[4], state[5]),
         IF state[6] = "w" THEN "b" ELSE IF state[6] = "b" THEN "w" ELSE state[6])

rotated_twice(state) == flipped(flipped(state))

\* A flip command has just been handled.
flip_handled == pc' = "running" /\ commands' = commands + 1 /\ command' = <<"flip">>

\* C11: in every reachable state rotate_position applied twice returns the
\* position string, the two castling pairs, en_passant and king_passant
\* unchanged, and a flip command that follows a flip command restores the
\* state the first one found, the colour included.
C11_rotate_twice ==
  /\ [](pc = "running" => rotated_twice(main_locals) = main_locals)
  /\ [][flip_handled => (main_locals' = flipped(main_locals) /\ flipped(main_locals') = main_locals)]_vars

\* Two flip commands after a position where the two pairs differ.
C11_witness ==
  /\ pc = "running"
  /\ commands = 2
  /\ command = <<"flip">>
  /\ played = <<>>
  /\ color = "w"
  /\ castling = <<FALSE, TRUE>>
  /\ opponent_castling = <<FALSE, FALSE>>

(***************************************************************************)
(* The evaluation of a position and of its rotation (SpecPlay)             *)
(***************************************************************************)
\* endgame_score of evaluate_position at the end of its loop, before the
\* mop-up bonus is added or subtracted.
endgame_sum ==
  eval_cells(position, find_or_zero(position, "K"), find_or_zero(position, "k"), 0, 119)[2]

rotated_board == rotate_position(position, castling, opponent_castling, en_passant, king_passant)[1]

\* C12: for every position whose endgame score is zero, so that no mop-up
\* term is applied, evaluate_position of the position is the negation of
\* evaluate_position of the rotated position.
C12_antisymmetric ==
  (pc = "running" /\ endgame_sum = 0) =>
    evaluate_position(position) = 0 - evaluate_position(rotated_board)
(***************************************************************************)
(* The book move of a go command (specification Spec)                      *)
(***************************************************************************)
\* The records of the loaded books whose key is the hash of the position.
book_records ==
  {record \in UNION {Range(OPENING_BOOKS[num]) : num \in DOMAIN OPENING_BOOKS} :
     record[1] = zobrist_hash(position, castling, opponent_castling, en_passant, king_passant,
                              color)}

\* The last line read was a go command with all its arguments, given to an
\* initialized process that holds a valid position.
go_answered == go_read /\ ~go_raises(command)

\* C13: when a loaded book holds an entry whose key is the hash of the
\* position, go writes info string weighted bookmove and the move of one of
\* those entries as bestmove, without calling nega_max: no info depth line
\* and the transposition table unchanged.  When no book holds such an
\* entry the weighted pick is the null move and the search runs.
C13_book_move ==
  go_answered =>
    IF book_records # {}
    THEN /\ pc = "running"
         /\ out[1] = [kind |-> "info string", string |-> "weighted bookmove"]
         /\ Len(out) = 2
         /\ out[2].kind = "bestmove"
         /\ \E record \in book_records :
              out[2].move = algebraic_notation(decode_entry(record, position, color)[1], color)
         /\ search.iterations = <<>>
         /\ TRANSPOSITION_TABLE = <<>>
    ELSE /\ pc = "running"
         /\ search.weighted_entry = NULL_MOVE
         /\ (go_depth(command) >= 1 => search.iterations # <<>>)
(***************************************************************************)
(* Properties of the calls of nega_max (specification SpecSearch)          *)
(***************************************************************************)
\* The position of the call after the move it returned has been made, on
\* the mover's board.
returned_made ==
  make_move(returned.best_move, returned.position, returned.castling,
            returned.opponent_castling, returned.en_passant, returned.king_passant)[1]

\* C14: every non-null move that nega_max returns as best move, from its
\* loop or from an entry of the transposition table, is a member of
\* generate_moves of the position of the call and leaves the mover's king
\* not attacked once it is made.
C14_best_move_legal ==
  (returned.called /\ returned.best_move # NULL_MOVE) =>
    /\ returned.best_move \in Range(generate_moves(returned.position, returned.castling,
                                                   returned.en_passant))
    /\ ~mover_in_check(returned_made)

\* C15: whenever the side to move has a generated move that passes the
\* self-check test and the depth cap is at least 1, go prints a bestmove
\* other than (none), whatever the time limit and the reading of the clock
\* at which the time limit is found passed.
C15_bestmove_printed ==
  (/\ go_searched
   /\ search.depth >= 1
   /\ legal_moves(position, castling, opponent_castling, en_passant, king_passant) # {}) =>
    ~printed_none

\* The call is an iteration of iteratively_deepen: nega_max(max_depth,
\* -CHECKMATE_UPPER, CHECKMATE_UPPER, ...) on the position held, with the
\* table that the iterations before it left.
iteration_called ==
  /\ returned.called
  /\ returned.depth = returned.max_depth
  /\ returned.alpha = -CHECKMATE_UPPER
  /\ returned.beta = CHECKMATE_UPPER
  /\ returned.table = table_left(<<command, returned.depth - 1>>)

\* C16: if an iteration times out, the transposition table after the
\* search has unwound is the table at the end of the iteration before it.
C16_table_kept ==
  (iteration_called /\ returned.timeout) => TRANSPOSITION_TABLE = returned.table

\* The entry that the table held for the position when nega_max was
\* called, <<best_move, depth, score>>; its depth is -1 when there was none.
entry_probed ==
  probe(returned.table,
        zobrist_hash(returned.position, returned.castling, returned.opponent_castling,
                     returned.en_passant, returned.king_passant, returned.color))

\* nega_max was called with depth >= 1 before the time limit had passed, and
\* the table held an entry for the position.
probed_with_entry ==
  /\ returned.called
  /\ returned.depth >= 1
  /\ returned.deadline > 0
  /\ entry_probed[2] >= 0

\* The entry was returned at once: its score and its move are the result,
\* no node was counted and the table was not written.
entry_returned ==
  /\ returned.score = entry_probed[3]
  /\ returned.best_move = entry_probed[1]
  /\ nodes = returned.nodes
  /\ TRANSPOSITION_TABLE = returned.table

\* The score is one that nega_max gives a mate: CHECKMATE_LOWER less the
\* plies between the root and the mate, with either sign.
mate_score(score) == (CHECKMATE_LOWER - abs(score)) \in 0..(MaxTop + 1)

keys_written ==
  {key \in DOMAIN TRANSPOSITION_TABLE :
     key \notin DOMAIN returned.table \/ TRANSPOSITION_TABLE[key] # returned.table[key]}

\* The key of the position of the call.
key_called ==
  zobrist_hash(returned.position, returned.castling, returned.opponent_castling,
               returned.en_passant, returned.king_passant, returned.color)

\* The call ended in a beta cutoff, on a position without a move that passes
\* the self-check test, on a timeout, or without raising alpha: it returned
\* beta, or the null move.
ended_without_move ==
  returned.called /\ (returned.score = returned.beta \/ returned.best_move = NULL_MOVE
                        \/ returned.timeout)

\* C18: in every reachable state every entry of the transposition table
\* has a non-null best move and a depth of at least 1; a node that ends in
\* a beta cutoff, in mate or stalemate, in a timeout, or without raising
\* alpha writes no entry for its position.
C18_entries ==
  /\ \A key \in DOMAIN TRANSPOSITION_TABLE :
       TRANSPOSITION_TABLE[key][1] # NULL_MOVE /\ TRANSPOSITION_TABLE[key][2] >= 1
  /\ ended_without_move => key_called \notin keys_written

\* A call with the narrow window that ended in a beta cutoff and left the
\* table without an entry for its position.
C18_witness ==
  /\ returned.called
  /\ ~returned.timeout
  /\ returned.beta = 50
  /\ returned.score = returned.beta
  /\ key_called \notin keys_written
  /\ key_called \notin DOMAIN TRANSPOSITION_TABLE

\* C19: a call of nega_max with alpha < beta that does not time out returns
\* a score s with alpha <= s <= beta, whether the score comes from the
\* table, from the loop over the moves, or from a mate or a stalemate.
C19_fail_hard ==
  (returned.called /\ ~returned.timeout /\ returned.alpha < returned.beta)
    => (returned.alpha <= returned.score /\ returned.score <= returned.beta)
(***************************************************************************)
(* The castling pair of the mover (specification SpecPlay)                 *)
(***************************************************************************)
\* The castling moves that generate_moves emits for the position held.
castling_generated ==
  {move \in Range(generate_moves(position, castling, en_passant)) :
     position[move[1]] = "K" /\ (move[2] - move[1]) \in {WEST + WEST, EAST + EAST}}

\* The file, in white's view, of the cell on which the king of a castling
\* move ends: 7 (g) on the kingside, 3 (c) on the queenside.
castling_file(move) == in_white_view(move[2], color) % 10

\* C20: for either colour as mover, generate_moves emits the kingside
\* castling move only if index 1 of the mover's castling pair holds and the
\* queenside one only if index 0 holds, the pair being [Q, K] for white and
\* [q, k] for black as loaded from the FEN.
C20_castling_index ==
  pc = "running" =>
    \A move \in castling_generated :
      /\ castling_file(move) = 7 => castling[2]
      /\ castling_file(move) = 3 => castling[1]
(***************************************************************************)
(* The rights, the en passant cell and the board along the moves           *)
(* (specification SpecPlay)                                                *)
(***************************************************************************)
\* The pair of a side in a state: that of the mover or that of the opponent.
rights_of(side, mover, own, other) == IF side = mover THEN own ELSE other

\* The home corner, in white's view, of the rook of a wing (1 queenside,
\* the a-file; 2 kingside, the h-file) of a side.
home_corner(side, wing) == square(IF wing = 1 THEN 1 ELSE 8, IF side = "w" THEN 1 ELSE 8)

\* The step is a move: Play has appended it to played.
move_made == played' # played

\* The move of the step, as <<start, end>> on the mover's board.
move_of_step ==
  <<in_white_view(played'[Len(played')][1], color), in_white_view(played'[Len(played')][2], color)>>

\* The move of the step takes from a side the right of a wing: the side's
\* king moves, or its rook of that wing leaves its home corner, or a piece
\* of the other side moves onto that corner while the rook stands on it.
right_taken(side, wing) ==
  \/ side = color /\ position[move_of_step[1]] = "K"
  \/ /\ side = color
     /\ position[move_of_step[1]] = "R"
     /\ played'[Len(played')][1] = home_corner(side, wing)
  \/ /\ side # color
     /\ position[move_of_step[2]] = "r"
     /\ played'[Len(played')][2] = home_corner(side, wing)

\* C21: across make_move and rotate_position no castling right of either
\* side changes from false to true, and a right is cleared exactly when the
\* side's king moves or the rook of that wing (queenside the a-file rook,
\* kingside the h-file rook, for white and for black) moves away from or is
\* captured on its home corner; the right of the other wing stays.
C21_rights ==
  [][move_made =>
       \A side \in {"w", "b"} : \A wing \in {1, 2} :
         rights_of(side, color', castling', opponent_castling')[wing]
           = (rights_of(side, color, castling, opponent_castling)[wing]
                /\ ~right_taken(side, wing))]_vars

\* The move of the step is a double pawn push.
double_push_made ==
  /\ position[move_of_step[1]] = "P"
  /\ move_of_step[2] - move_of_step[1] = NORTH + NORTH

\* C22: after make_move followed by rotate_position the new mover's
\* en_passant designates a cell (is neither 0 nor 119) only if the move just
\* made was a double pawn push; every other move leaves the new mover with
\* no en passant cell.
C22_en_passant_reset ==
  [][move_made => ((en_passant' # 0 /\ en_passant' # 119) => double_push_made)]_vars

\* The cells of rows 2-9, columns 1-8.
board_cells == {cell \in 0..119 : cell \div 10 \in 2..9 /\ cell % 10 \in 1..8}

PIECE_CHARS == {"P", "N", "B", "R", "Q", "K", "p", "n", "b", "r", "q", "k"}

\* C23: in every position reached by moves taken from generate_moves, each
\* followed by rotate_position, the sentinel cells are the whitespace of the
\* initial position, every cell of rows 2-9, columns 1-8 is "." or a piece
\* character, and at most one cell holds "K" and at most one holds "k".
C23_board ==
  pc = "running" =>
    /\ \A cell \in (0..119) \ board_cells :
         position[cell] = INITIAL_POSITION[cell] /\ isspace(position[cell])
    /\ \A cell \in board_cells : position[cell] \in PIECE_CHARS \cup {"."}
    /\ count(position, "K") <= 1
    /\ count(position, "k") <= 1

\* A pawn has captured a knight on the last rank and become a queen, and
\* another move has followed.
C23_witness ==
  /\ pc = "running"
  /\ Len(played) >= 2
  /\ count(position, "Q") + count(position, "q") = 3
  /\ count(position, "N") + count(position, "n") = 3

\* C28: game_phase returns a value in the range 0..256 for every position
\* reached by generated moves, promotions included.
C28_phase_range == pc = "running" => game_phase(position) \in 0..256

\* The cells that the move of the step may change, on the mover's board:
\* its start and end cells, the two rook cells of a castling move, and the
\* cell of the pushed pawn for an en passant capture.
cells_of_move ==
  {move_of_step[1], move_of_step[2]}
    \cup (IF position[move_of_step[1]] = "K" /\ move_of_step[1] - move_of_step[2] = 2
          THEN {A1, move_of_step[2] + EAST} ELSE {})
    \cup (IF position[move_of_step[1]] = "K" /\ move_of_step[2] - move_of_step[1] = 2
          THEN {H1, move_of_step[2] + WEST} ELSE {})
    \cup (IF position[move_of_step[1]] = "P" /\ position[move_of_step[2]] = "."
             /\ (move_of_step[2] - move_of_step[1]) \in {NORTH + WEST, NORTH + EAST}
             /\ position[move_of_step[2] + SOUTH] = "p"
          THEN {move_of_step[2] + SOUTH} ELSE {})

\* The board after the step, turned back to the board of the side that moved.
board_after == [cell \in 0..119 |-> IF cell \in board_cells THEN swapcase(position'[119 - cell])
                                    ELSE position'[cell]]

\* The pieces of one case on a board.
pieces_on(board, kinds) == Cardinality({cell \in board_cells : board[cell] \in kinds})

\* C29: for every move emitted by generate_moves in a state reached by
\* make_move and rotate_position, make_move removes at most one piece of the
\* opponent and no piece of the mover, and changes no cell other than the
\* start cell, the end cell, the two rook cells of a castling move and the
\* captured pawn's cell of an en passant capture.
C29_frame ==
  [][move_made =>
       /\ pieces_on(board_after, {"p", "n", "b", "r", "q", "k"})
            >= pieces_on(position, {"p", "n", "b", "r", "q", "k"}) - 1
       /\ pieces_on(board_after, {"P", "N", "B", "R", "Q", "K"})
            = pieces_on(position, {"P", "N", "B", "R", "Q", "K"})
       /\ \A cell \in (0..119) \ cells_of_move : board_after[cell] = position[cell]]_vars
(***************************************************************************)
(* The commands that read the state and the commands before isready        *)
(* (specification Spec)                                                    *)
(***************************************************************************)
\* A go, eval or board command has just been handled and the process goes
\* on.
state_read ==
  /\ pc' = "running"
  /\ commands' = commands + 1
  /\ initialized
  /\ Len(command') > 0
  /\ command'[1] \in {"go", "eval", "board"}

go_step == commands' = commands + 1 /\ Len(command') > 0 /\ command'[1] = "go"

\* The position state is invalid: no position is set, or the side to move
\* has no king.
no_valid_position ==
  \/ invalid_position(position, castling, opponent_castling, en_passant, king_passant, color)
  \/ count(position, "K") = 0

\* C26: a go command issued while the position state is invalid (no
\* position set yet, or a position in which the side to move has no king)
\* is ignored: nothing is printed, no search is run, and the loop continues
\* with the next command.
C26_go_ignored ==
  [][(go_step /\ no_valid_position) =>
       /\ out' = <<>>
       /\ pc' = "running"
       /\ UNCHANGED <<main_locals, globals, search, searches>>]_vars

\* An isready command is read.
isready_step == commands' = commands + 1 /\ Len(command') > 0 /\ command'[1] = "isready"

\* A line other than uci, isready and quit is read.
other_step ==
  /\ commands' = commands + 1
  /\ (Len(command') > 0 => command'[1] \notin {"uci", "isready", "quit"})

\* C27: initialization (the tables padded, the books loaded, the search
\* counters zeroed) runs exactly once, on the first isready; every isready
\* is answered with readyok; and before the first isready every command
\* other than uci, isready and quit has no output and no effect on the
\* state.
C27_initialized_once ==
  [][/\ isready_step => (out' = <<[kind |-> "readyok"]>> /\ pc' = "running" /\ initialized')
     /\ (isready_step /\ initialized) => UNCHANGED globals
     /\ (isready_step /\ ~initialized) =>
          /\ OPENING_BOOKS' = [num \in 1..7 |-> files[num].records]
          /\ max_depth' = 0 /\ nodes' = 0 /\ time_limit' = 0 /\ timeout' = FALSE
     /\ (other_step /\ ~initialized) =>
          /\ out' = <<>>
          /\ pc' = "running"
          /\ UNCHANGED <<main_locals, initialized, globals, search, searches>>]_vars
(***************************************************************************)
(* The moves of the book as all_entries decodes them (specification        *)
(* SpecPlay: the positions reached for the position, the moves of          *)
(* BOOK_MOVES for the record)                                              *)
(***************************************************************************)
\* The cells, in white's view, that a book move starts or ends on: the
\* corners, the cells of the kings and queens, and e2 and e4.
BOOK_CELLS ==
  {square(1, 1), square(4, 1), square(5, 1), square(8, 1),
   square(1, 8), square(4, 8), square(5, 8), square(8, 8), square(5, 2), square(5, 4)}

\* The record of a book for a move between two cells in white's view.
book_record(from, to) ==
  <<{}, raw_move((from % 10) - 1, 9 - (from \div 10), (to % 10) - 1, 9 - (to \div 10)), 1, 0>>

\* The move is the castling move of the mover's king written as the king
\* taking its own rook: e1h1, e1a1 for white, e8h8, e8a8 for black.
king_takes_rook(from, to) ==
  /\ from = square(5, IF color = "b" THEN 8 ELSE 1)
  /\ to \in {square(1, IF color = "b" THEN 8 ELSE 1), square(8, IF color = "b" THEN 8 ELSE 1)}
  /\ position[in_white_view(from, color)] = "K"
  /\ position[in_white_view(to, color)] = "R"

\* The cell, in white's view, on which the king ends when it castles
\* towards the corner: the c-file or the g-file of the same rank.
castled_to(corner) == square(IF corner % 10 = 1 THEN 3 ELSE 7, 10 - (corner \div 10))

\* C25: all_entries translates a book move into a two-square king move only
\* when the move is the king's castling move encoded as the king taking its
\* own rook; every other book move, whatever piece stands on its start
\* square, is decoded with its own start and end squares, mirrored by
\* 119 - cell when black is to move.
C25_book_decoding ==
  pc = "running" =>
    \A from \in BOOK_CELLS : \A to \in BOOK_CELLS \ {from} :
      /\ decode_entry(book_record(from, to), position, color)[1][1] = in_white_view(from, color)
      /\ decode_entry(book_record(from, to), position, color)[1][2]
           = in_white_view(IF king_takes_rook(from, to) THEN castled_to(to) ELSE to, color)
(***************************************************************************)
(* The transposition table over the life of the process (specification     *)
(* SpecSearch)                                                             *)
(***************************************************************************)
\* C30: no key of the transposition table is ever removed and the depth
\* stored under a key never decreases: an entry is overwritten only by a
\* result of strictly greater depth, and an entry whose score is
\* >= CHECKMATE_LOWER is never overwritten.
C30_table_grows ==
  [][\A key \in DOMAIN TRANSPOSITION_TABLE :
       /\ key \in DOMAIN TRANSPOSITION_TABLE'
       /\ TRANSPOSITION_TABLE'[key][2] >= TRANSPOSITION_TABLE[key][2]
       /\ TRANSPOSITION_TABLE'[key] # TRANSPOSITION_TABLE[key] =>
            /\ TRANSPOSITION_TABLE'[key][2] > TRANSPOSITION_TABLE[key][2]
            /\ TRANSPOSITION_TABLE[key][3] < CHECKMATE_LOWER]_vars

\* A call has overwritten the entry that the table held for its position,
\* and the table holds entries that it left alone.
C30_witness ==
  /\ returned.called
  /\ key_called \in DOMAIN returned.table
  /\ TRANSPOSITION_TABLE[key_called] # returned.table[key_called]
  /\ \E key \in DOMAIN returned.table : TRANSPOSITION_TABLE[key] = returned.table[key]
====
